---- MODULE Spec2Model ----
(***************************************************************************)
(* A model of semantic_world.spatial_types.spatial_types: the interned     *)
(* Symbol registry, the Expression wrapper, the five geometric value types *)
(* (Point3, Vector3, Quaternion, RotationMatrix, TransformationMatrix) and *)
(* the operator dispatch between them.                                     *)
(*                                                                         *)
(* A casadi SX matrix is a sequence of rows; an entry is a symbolic term:  *)
(*   <<"c", n>>        the integer constant n                              *)
(*   <<"sym", name>>   the free symbol called name                         *)
(*   <<f, t>>          a unary node  (neg, cos, sin, sqrt, not)            *)
(*   <<f, t, u>>       a binary node (add, sub, mul, div, pow, gt, ...)    *)
(*   <<"if_else", c, t, u>>                                                *)
(* A Python object is a record: its class, its SX matrix s and its frames. *)
(***************************************************************************)
EXTENDS Integers, Sequences, FiniteSets, TLC

VARIABLES
    registry,    \* Symbol._registry: name -> instance id, 0 when the name is absent
    instances,   \* number of Symbol instances created so far
    strhash,     \* the process's str hash: name -> hash value
    requested,   \* the names Symbol(name) has been called with so far
    symA, symB,  \* two Symbol handles held by the caller (instance id and name)
    cmp,         \* outcome of the last comparison of symA with symB
    lhs, rhs,    \* the two operands the caller holds
    res,         \* the last call: its name, the exception raised, the value returned
    compiled_f,  \* the CompiledFunction (or StackedCompiledFunction) the caller holds
    call,        \* the last call of compiled_f: its arguments and the array returned
    kept,        \* a reference to a returned array the caller kept from an earlier call
    app,         \* the last application of a logic or conditional helper
    heap,        \* the casadi SX objects alive: address -> matrix
    objs,        \* the Python objects the caller holds; the field s is an address
    ret          \* the last call on one of objs: its name, its operand, its result

symvars == <<registry, instances, strhash, requested, symA, symB, cmp>>
geovars == <<lhs, rhs, res>>
cfvars == <<compiled_f, call, kept, app>>
memvars == <<heap, objs, ret>>
vars == <<registry, instances, strhash, requested, symA, symB, cmp, lhs, rhs, res,
          compiled_f, call, kept, app, heap, objs, ret>>

---------------------------------------------------------------------------
(* Bounds of the model *)

\* integer constants used as coordinates and scalars: 0 .. MaxConst
MaxConst == 2
\* hash values are 0 .. 2^HashBits - 1
HashBits == 1
\* nested lists handed to the matrix constructors have 3 .. MaxDim rows and columns
MaxDim == 4
\* a compiled function's evaluator is run at most MaxRuns times
MaxRuns == 3
\* logic_and and logic_or are called with 2 .. MaxArgs arguments
MaxArgs == 3
\* a case list has at most MaxCases cases
MaxCases == 3
\* the caller holds at most MaxObjects matrices and points
MaxObjects == 2

Names == {"a", "b"}
Frames == {"None", "A"}
None == "None"

---------------------------------------------------------------------------
(* casadi SX entries *)

C(n) == <<"c", n>>
IsC(t) == t[1] = "c"
Zero == C(0)
One == C(1)
IsZero(t) == t = Zero
IsOne(t) == t = One

\* ca.SX.sym(name)
SXsym(name) == <<"sym", name>>

\* x + y, with the engine's folding of constants and of a zero operand
SXadd(x, y) ==
    IF IsC(x) /\ IsC(y) THEN C(x[2] + y[2])
    ELSE IF IsZero(x) THEN y
    ELSE IF IsZero(y) THEN x
    ELSE <<"add", x, y>>

\* x - y
SXsub(x, y) ==
    IF IsC(x) /\ IsC(y) THEN C(x[2] - y[2])
    ELSE IF IsZero(y) THEN x
    ELSE IF x = y THEN Zero
    ELSE <<"sub", x, y>>

\* a constant fraction p/q the engine holds as one number
IsFraction(t) == t[1] = "div" /\ IsC(t[2]) /\ IsC(t[3]) /\ t[3][2] # 0

\* x * y: a zero factor gives zero, a unit factor the other operand
SXmul(x, y) ==
    IF IsC(x) /\ IsC(y) THEN C(x[2] * y[2])
    ELSE IF IsZero(x) \/ IsZero(y) THEN Zero
    ELSE IF IsOne(x) THEN y
    ELSE IF IsOne(y) THEN x
    ELSE IF IsC(x) /\ IsFraction(y) /\ (x[2] * y[2][2]) % y[3][2] = 0
    THEN C((x[2] * y[2][2]) \div y[3][2])
    ELSE <<"mul", x, y>>

\* x / y: folded when the quotient is an integer, kept as a node otherwise
\* (a fraction, or a division by zero, whose value is inf or nan)
SXdiv(x, y) ==
    IF IsOne(y) THEN x
    ELSE IF IsC(x) /\ IsC(y) /\ y[2] # 0 /\ x[2] % y[2] = 0 THEN C(x[2] \div y[2])
    ELSE IF IsZero(x) /\ ~IsC(y) THEN Zero
    ELSE <<"div", x, y>>

RECURSIVE IntPow(_, _)
IntPow(b, e) == IF e = 0 THEN 1 ELSE b * IntPow(b, e - 1)

\* x ** y: folded for a non-negative integer exponent
SXpow(x, y) ==
    IF IsC(x) /\ IsC(y) /\ y[2] >= 0 THEN C(IntPow(x[2], y[2]))
    ELSE IF IsOne(y) THEN x
    ELSE IF IsZero(y) THEN One
    ELSE <<"pow", x, y>>

\* -x
SXneg(x) ==
    IF IsC(x) THEN C(0 - x[2])
    ELSE IF x[1] = "neg" THEN x[2]
    ELSE <<"neg", x>>

\* The scalar operation behind each Python operator on SX
SXop(op, x, y) ==
    CASE op = "add" -> SXadd(x, y)
      [] op = "sub" -> SXsub(x, y)
      [] op = "mul" -> SXmul(x, y)
      [] op = "truediv" -> SXdiv(x, y)
      [] op = "pow" -> SXpow(x, y)

\* ca.if_else(c, x, y) on entries: a constant condition selects at once
SXif_else(c, x, y) ==
    IF IsC(c) THEN (IF c[2] # 0 THEN x ELSE y)
    ELSE <<"if_else", c, x, y>>

\* ca.gt(x, 0) and friends on entries
SXgt(x, y) == IF IsC(x) /\ IsC(y) THEN C(IF x[2] > y[2] THEN 1 ELSE 0) ELSE <<"gt", x, y>>

\* sqrt of an entry: folded for the squares the model meets
SXsqrt(x) ==
    IF IsC(x) /\ x[2] >= 0 /\ (\E r \in 0..(3 * MaxConst + 1) : r * r = x[2])
    THEN C(CHOOSE r \in 0..(3 * MaxConst + 1) : r * r = x[2])
    ELSE <<"sqrt", x>>

SXcos(x) == IF IsZero(x) THEN One ELSE <<"cos", x>>
SXsin(x) == IF IsZero(x) THEN Zero ELSE <<"sin", x>>

---------------------------------------------------------------------------
(* casadi SX matrices: a sequence of rows, each a sequence of entries *)

Rows(m) == Len(m)
Cols(m) == IF Len(m) = 0 THEN 0 ELSE Len(m[1])
\* Symbol_.shape
Shape(m) == <<Rows(m), Cols(m)>>
IsScalar(m) == Rows(m) = 1 /\ Cols(m) = 1
Numel(m) == Rows(m) * Cols(m)

\* ca.SX(x, y): an all-zero x-by-y matrix
SXzeros(x, y) == [i \in 1..x |-> [j \in 1..y |-> Zero]]
\* ca.SX.eye(n)
SXeye(n) == [i \in 1..n |-> [j \in 1..n |-> IF i = j THEN One ELSE Zero]]
\* a column from a sequence of entries, e.g. ca.SX([0, 0, 0, 1])
Col(seq) == [i \in 1..Len(seq) |-> <<seq[i]>>]
\* a 1x1 matrix
Scalar(t) == <<<<t>>>>

\* m[k] with a single Python index k = 0, 1, ...: column-major linear indexing
At(m, k) == m[(k % Rows(m)) + 1][(k \div Rows(m)) + 1]
\* m[i, j] with Python indices
At2(m, i, j) == m[i + 1][j + 1]
\* m[i, j] = t  (Symbol_.__setitem__), Python indices
Set2(m, i, j, t) == [m EXCEPT ![i + 1][j + 1] = t]
\* m[k] = t with a single index
Set1(m, k, t) == Set2(m, k % Rows(m), k \div Rows(m), t)

\* m.T
SXT(m) == [j \in 1..Cols(m) |-> [i \in 1..Rows(m) |-> m[i][j]]]

\* Two operands of an entrywise operation fit when the shapes agree or one is 1x1
Fits(a, b) == IsScalar(a) \/ IsScalar(b) \/ Shape(a) = Shape(b)

\* a.__op__(b) on SX matrices: entrywise, a 1x1 operand is broadcast
SXbinary(op, a, b) ==
    IF IsScalar(a) THEN [i \in 1..Rows(b) |-> [j \in 1..Cols(b) |-> SXop(op, a[1][1], b[i][j])]]
    ELSE IF IsScalar(b) THEN [i \in 1..Rows(a) |-> [j \in 1..Cols(a) |-> SXop(op, a[i][j], b[1][1])]]
    ELSE [i \in 1..Rows(a) |-> [j \in 1..Cols(a) |-> SXop(op, a[i][j], b[i][j])]]

\* a.__neg__()
SXnegate(a) == [i \in 1..Rows(a) |-> [j \in 1..Cols(a) |-> SXneg(a[i][j])]]

RECURSIVE SumProd(_, _, _, _, _)
\* sum over k = 1..n of a[i][k] * b[k][j]
SumProd(a, b, i, j, n) ==
    IF n = 0 THEN Zero
    ELSE SXadd(SumProd(a, b, i, j, n - 1), SXmul(a[i][n], b[n][j]))

\* ca.mtimes(a, b) is defined when inner sizes agree or one operand is 1x1
MtimesFits(a, b) == IsScalar(a) \/ IsScalar(b) \/ Cols(a) = Rows(b)

\* ca.mtimes(a, b)
SXmtimes(a, b) ==
    IF IsScalar(a) \/ IsScalar(b) THEN SXbinary("mul", a, b)
    ELSE [i \in 1..Rows(a) |-> [j \in 1..Cols(b) |-> SumProd(a, b, i, j, Cols(a))]]

\* ca.if_else(c, a, b) with a 1x1 condition, entrywise over the branches
SXif_else_m(c, a, b) ==
    IF IsScalar(a) THEN [i \in 1..Rows(b) |-> [j \in 1..Cols(b) |-> SXif_else(c, a[1][1], b[i][j])]]
    ELSE IF IsScalar(b) THEN [i \in 1..Rows(a) |-> [j \in 1..Cols(a) |-> SXif_else(c, a[i][j], b[1][1])]]
    ELSE [i \in 1..Rows(a) |-> [j \in 1..Cols(a) |-> SXif_else(c, a[i][j], b[i][j])]]

---------------------------------------------------------------------------
(* Python objects *)

\* An instance of one of the library's classes, or a plain Python value handed
\* to a constructor ("NoneType", "float", "list" of scalars, "nested" list of
\* rows, raw "SX")
Obj(cls, s, rf, cf, vf) ==
    [cls |-> cls, s |-> s, reference_frame |-> rf, child_frame |-> cf, vis_frame |-> vf]
Plain(cls, s) == Obj(cls, s, None, None, None)
NoneObj == Plain("NoneType", <<>>)
Float(n) == Plain("float", Scalar(C(n)))

\* The outcome of a call: the value returned, or the exception raised
Return(o) == [exc |-> "none", out |-> o]
Raise(e) == [exc |-> e, out |-> NoneObj]

\* The rest of a function after a call that may raise: the exception propagates,
\* otherwise F continues with the value returned
Then(r, F(_)) == IF r.exc # "none" THEN r ELSE F(r.out)

\* isinstance(x, Symbol_): every class of the library derives from Symbol_
IsSymbol_(x) ==
    x.cls \in {"Symbol", "Expression", "Point3", "Vector3", "Quaternion",
               "RotationMatrix", "TransformationMatrix"}
\* isinstance(x, (int, float))
IsNumber(x) == x.cls = "float"

\* Python's `a or b` on frames: None is falsy
PyOr(a, b) == IF a # None THEN a ELSE b

\* _operation_type_error(arg1, operation, arg2)
_operation_type_error == Raise("TypeError")

\* Expression.__init__(data): the SX matrix stored in self.s
ExpressionS(data) ==
    IF data.cls = "NoneType" THEN <<>>
    ELSE IF data.cls = "SX" THEN data.s
    ELSE IF IsSymbol_(data) THEN data.s
    ELSE IF data.cls = "float" THEN data.s
    ELSE IF Len(data.s) = 0 THEN <<>>
    ELSE LET x == Len(data.s)
             y == IF data.cls = "nested" THEN Len(data.s[1]) ELSE 1
         IN [i \in 1..x |-> [j \in 1..y |-> data.s[i][j]]]

\* Expression(data)
Expression(data) == Plain("Expression", ExpressionS(data))

\* Symbol_.__getitem__ with a single index: Expression(self.s[item]).s
GetItem(x, k) == At(x.s, k)

\* Point3.__init__(data, reference_frame)
Point3__init__(data, reference_frame) ==
    IF data.cls = "NoneType"
    THEN Return(Obj("Point3", Col(<<Zero, Zero, Zero, One>>), reference_frame, None, None))
    ELSE IF Numel(data.s) < 3 THEN Raise("IndexError")
    ELSE Return(Obj("Point3",
                    Col(<<GetItem(data, 0), GetItem(data, 1), GetItem(data, 2), One>>),
                    IF data.cls \in {"Point3", "Vector3"}
                    THEN PyOr(reference_frame, data.reference_frame)
                    ELSE reference_frame,
                    None, None))

\* Vector3.__init__ without its last statement, self[3] = 0
Vector3__init__KeepsFourth(data, reference_frame) ==
    Then(Point3__init__(data, reference_frame),
         LAMBDA point : Return(Obj("Vector3", point.s,
                                   point.reference_frame, None, point.reference_frame)))

\* Vector3.__init__(data, reference_frame): a Point3 whose 4th entry is then set to 0
Vector3__init__(data, reference_frame) ==
    Then(Point3__init__(data, reference_frame),
         LAMBDA point : Return(Obj("Vector3", Set1(point.s, 3, Zero),
                                   point.reference_frame, None, point.reference_frame)))

\* Quaternion.__init__(data, reference_frame)
Quaternion__init__(data, reference_frame) ==
    IF data.cls = "NoneType"
    THEN Return(Obj("Quaternion", Col(<<Zero, Zero, Zero, One>>), reference_frame, None, None))
    ELSE IF Numel(data.s) < 4 THEN Raise("IndexError")
    ELSE Return(Obj("Quaternion",
                    Col(<<GetItem(data, 0), GetItem(data, 1), GetItem(data, 2), GetItem(data, 3)>>),
                    reference_frame, None, None))

\* The writes of TransformationMatrix.__init__'s sanity check: the bottom row
SanityT(s) == Set2(Set2(Set2(Set2(s, 3, 0, Zero), 3, 1, Zero), 3, 2, Zero), 3, 3, One)

\* The writes of RotationMatrix.__init__'s sanity check: last column and bottom row
SanityR(s) == SanityT(Set2(Set2(Set2(s, 0, 3, Zero), 1, 3, Zero), 2, 3, Zero))

\* A sanity check that tests nothing and writes nothing
TransformationMatrixNoSanity(s, rf, cf, sanity_check) ==
    Return(Obj("TransformationMatrix", s, rf, cf, None))

\* The end of TransformationMatrix.__init__, once self.s and the frames are set
TransformationMatrixSanity(s, rf, cf, sanity_check) ==
    IF ~sanity_check THEN Return(Obj("TransformationMatrix", s, rf, cf, None))
    ELSE IF Rows(s) # 4 \/ Cols(s) # 4 THEN Raise("ValueError")
    ELSE Return(Obj("TransformationMatrix", SanityT(s), rf, cf, None))

\* TransformationMatrix.__init__(data, reference_frame, child_frame, sanity_check)
TransformationMatrix__init__(data, reference_frame, child_frame, sanity_check) ==
    IF data.cls = "NoneType"
    THEN Return(Obj("TransformationMatrix", SXeye(4), reference_frame, child_frame, None))
    ELSE TransformationMatrixSanity(
             IF data.cls \in {"SX", "Expression", "RotationMatrix", "TransformationMatrix"}
             THEN data.s ELSE ExpressionS(data),
             IF data.cls = "RotationMatrix"
             THEN PyOr(reference_frame, data.reference_frame) ELSE reference_frame,
             IF data.cls = "TransformationMatrix"
             THEN PyOr(child_frame, data.child_frame) ELSE child_frame,
             sanity_check)

\* RotationMatrix.__quaternion_to_rotation_matrix(q): the nested list handed to cls(...)
QuaternionToRotationData(q) ==
    LET x == GetItem(q, 0)
        y == GetItem(q, 1)
        z == GetItem(q, 2)
        w == GetItem(q, 3)
        x2 == SXmul(x, x)
        y2 == SXmul(y, y)
        z2 == SXmul(z, z)
        w2 == SXmul(w, w)
        two(a, b) == SXmul(SXmul(C(2), a), b)
    IN <<
        <<SXsub(SXsub(SXadd(w2, x2), y2), z2), SXsub(two(x, y), two(w, z)),
          SXadd(two(x, z), two(w, y)), Zero>>,
        <<SXadd(two(x, y), two(w, z)), SXsub(SXadd(SXsub(w2, x2), y2), z2),
          SXsub(two(y, z), two(w, x)), Zero>>,
        <<SXsub(two(x, z), two(w, y)), SXadd(two(y, z), two(w, x)),
          SXadd(SXsub(SXsub(w2, x2), y2), z2), Zero>>,
        <<Zero, Zero, Zero, One>> >>

\* The end of RotationMatrix.__init__, once self.s and the frames are set
RotationMatrixSanity(s, rf, cf, sanity_check) ==
    IF ~sanity_check THEN Return(Obj("RotationMatrix", s, rf, cf, None))
    ELSE IF Rows(s) # 4 \/ Cols(s) # 4 THEN Raise("ValueError")
    ELSE Return(Obj("RotationMatrix", SanityR(s), rf, cf, None))

\* RotationMatrix.__init__(data, reference_frame, child_frame, sanity_check)
RotationMatrix__init__(data, reference_frame, child_frame, sanity_check) ==
    IF data.cls = "NoneType"
    THEN Return(Obj("RotationMatrix", SXeye(4), reference_frame, child_frame, None))
    ELSE RotationMatrixSanity(
             IF data.cls = "Quaternion"
             THEN SanityR(ExpressionS(Plain("nested", QuaternionToRotationData(data))))
             ELSE IF data.cls \in {"SX", "RotationMatrix", "TransformationMatrix"}
             THEN data.s
             ELSE ExpressionS(data),
             IF data.cls = "Quaternion" THEN PyOr(reference_frame, data.reference_frame)
             ELSE IF data.cls \in {"RotationMatrix", "TransformationMatrix"}
             THEN data.reference_frame
             ELSE reference_frame,
             child_frame, sanity_check)

---------------------------------------------------------------------------
(* Operator overloads *)

\* cls(sx) for the three classes the arithmetic returns, sx a raw SX matrix
Make(cls, sx) ==
    CASE cls = "Expression" -> Return(Plain("Expression", sx))
      [] cls = "Point3" -> Point3__init__(Plain("SX", sx), None)
      [] cls = "Vector3" -> Vector3__init__(Plain("SX", sx), None)

\* cls(a.__op__(b)): the engine refuses operands whose shapes do not fit
MakeOp(cls, op, a, b) ==
    IF ~Fits(a, b) THEN Raise("RuntimeError") ELSE Make(cls, SXbinary(op, a, b))

\* result.reference_frame = frame
WithFrame(r, frame) ==
    IF r.exc # "none" THEN r ELSE Return([r.out EXCEPT !.reference_frame = frame])

\* Symbol.__add__, __sub__, __mul__, __truediv__, __pow__
Symbol__op(op, self, other) ==
    IF IsNumber(other) THEN MakeOp("Expression", op, self.s, other.s)
    ELSE IF IsSymbol_(other) /\ ~Fits(self.s, other.s) THEN Raise("RuntimeError")
    ELSE IF other.cls \in {"Symbol", "Expression"} THEN MakeOp("Expression", op, self.s, other.s)
    ELSE IF other.cls = "Vector3" THEN MakeOp("Vector3", op, self.s, other.s)
    ELSE IF other.cls = "Point3" THEN MakeOp("Point3", op, self.s, other.s)
    ELSE _operation_type_error

\* Symbol.__radd__, __rsub__, __rmul__, __rtruediv__, __rpow__  (other op self)
Symbol__rop(op, self, other) ==
    IF IsNumber(other) THEN MakeOp("Expression", op, other.s, self.s)
    ELSE _operation_type_error

\* Expression operators that wrap every result in an Expression
Expression__opNoPromotion(op, self, other) ==
    IF IsNumber(other) \/ other.cls \in {"Point3", "Vector3", "Expression", "Symbol"}
    THEN MakeOp("Expression", op, self.s, other.s)
    ELSE _operation_type_error

\* Expression.__add__, __sub__, __mul__, __truediv__, __pow__
Expression__op(op, self, other) ==
    IF IsNumber(other) THEN MakeOp("Expression", op, self.s, other.s)
    ELSE IF other.cls = "Point3" THEN MakeOp("Point3", op, self.s, other.s)
    ELSE IF other.cls = "Vector3" THEN MakeOp("Vector3", op, self.s, other.s)
    ELSE IF other.cls \in {"Expression", "Symbol"} THEN MakeOp("Expression", op, self.s, other.s)
    ELSE _operation_type_error

\* Expression.__radd__, __rsub__, __rmul__, __rtruediv__, __rpow__
Expression__rop(op, self, other) ==
    IF IsNumber(other) THEN MakeOp("Expression", op, other.s, self.s)
    ELSE _operation_type_error

\* Point3.__add__
Point3__add__(self, other) ==
    IF IsNumber(other) \/ other.cls \in {"Vector3", "Expression", "Symbol"}
    THEN WithFrame(MakeOp("Point3", "add", self.s, other.s), self.reference_frame)
    ELSE _operation_type_error

\* Point3.__sub__ without the branch that turns Point3 - Point3 into a Vector3
Point3__sub__NoVector(self, other) ==
    IF IsNumber(other) \/ other.cls \in {"Point3", "Symbol", "Expression", "Vector3"}
    THEN WithFrame(MakeOp("Point3", "sub", self.s, other.s), self.reference_frame)
    ELSE _operation_type_error

\* Point3.__sub__
Point3__sub__(self, other) ==
    IF IsNumber(other)
    THEN WithFrame(MakeOp("Point3", "sub", self.s, other.s), self.reference_frame)
    ELSE IF other.cls = "Point3"
    THEN WithFrame(MakeOp("Vector3", "sub", self.s, other.s), self.reference_frame)
    ELSE IF other.cls \in {"Symbol", "Expression", "Vector3"}
    THEN WithFrame(MakeOp("Point3", "sub", self.s, other.s), self.reference_frame)
    ELSE _operation_type_error

\* Point3.__mul__, __truediv__, __pow__
Point3__scalar_op(op, self, other) ==
    IF IsNumber(other) \/ other.cls \in {"Symbol", "Expression"}
    THEN WithFrame(MakeOp("Point3", op, self.s, other.s), self.reference_frame)
    ELSE _operation_type_error

\* The SX operation behind a reflected operator of Point3 and Vector3: __radd__
\* and __rmul__ call self.s.__add__ and self.s.__mul__, the others self.s.__rop__
ReflectedSX(op, self, other) ==
    IF op \in {"add", "mul"} THEN SXbinary(op, self.s, other.s) ELSE SXbinary(op, other.s, self.s)

\* Point3.__radd__, __rsub__, __rmul__, __rtruediv__, __rpow__
Point3__rop(op, self, other) ==
    IF IsNumber(other)
    THEN WithFrame(Make("Point3", ReflectedSX(op, self, other)), self.reference_frame)
    ELSE _operation_type_error

\* Vector3.__add__
Vector3__add__(self, other) ==
    IF IsNumber(other)
    THEN WithFrame(MakeOp("Vector3", "add", self.s, other.s), self.reference_frame)
    ELSE IF other.cls = "Point3"
    THEN WithFrame(MakeOp("Point3", "add", self.s, other.s), self.reference_frame)
    ELSE IF other.cls \in {"Vector3", "Expression", "Symbol"}
    THEN WithFrame(MakeOp("Vector3", "add", self.s, other.s), self.reference_frame)
    ELSE _operation_type_error

\* Vector3.__sub__
Vector3__sub__(self, other) ==
    IF IsNumber(other)
    THEN WithFrame(MakeOp("Vector3", "sub", self.s, other.s), self.reference_frame)
    ELSE IF other.cls = "Point3"
    THEN WithFrame(MakeOp("Point3", "sub", self.s, other.s), self.reference_frame)
    ELSE IF other.cls \in {"Symbol", "Expression", "Vector3"}
    THEN WithFrame(MakeOp("Vector3", "sub", self.s, other.s), self.reference_frame)
    ELSE _operation_type_error

\* Vector3.__mul__, __truediv__, __pow__
Vector3__scalar_op(op, self, other) ==
    IF IsNumber(other) \/ other.cls \in {"Symbol", "Expression"}
    THEN WithFrame(MakeOp("Vector3", op, self.s, other.s), self.reference_frame)
    ELSE _operation_type_error

\* Vector3.__radd__, __rsub__, __rmul__, __rtruediv__, __rpow__
Vector3__rop(op, self, other) ==
    IF IsNumber(other)
    THEN WithFrame(Make("Vector3", ReflectedSX(op, self, other)), self.reference_frame)
    ELSE _operation_type_error

\* The classes that define the arithmetic operators and their reflections
Arithmetic == {"Symbol", "Expression", "Point3", "Vector3"}
ArithOps == {"add", "sub", "mul", "truediv", "pow"}

\* type(self).__op__(self, other)
Call__op(op, self, other) ==
    CASE self.cls = "Symbol" -> Symbol__op(op, self, other)
      [] self.cls = "Expression" -> Expression__op(op, self, other)
      [] self.cls = "Point3" ->
            IF op = "add" THEN Point3__add__(self, other)
            ELSE IF op = "sub" THEN Point3__sub__(self, other)
            ELSE Point3__scalar_op(op, self, other)
      [] self.cls = "Vector3" ->
            IF op = "add" THEN Vector3__add__(self, other)
            ELSE IF op = "sub" THEN Vector3__sub__(self, other)
            ELSE Vector3__scalar_op(op, self, other)

\* type(self).__rop__(self, other)
Call__rop(op, self, other) ==
    CASE self.cls = "Symbol" -> Symbol__rop(op, self, other)
      [] self.cls = "Expression" -> Expression__rop(op, self, other)
      [] self.cls = "Point3" -> Point3__rop(op, self, other)
      [] self.cls = "Vector3" -> Vector3__rop(op, self, other)

\* Python's evaluation of `a op b`: a's operator if its class defines one, else
\* b's reflected operator, else TypeError.  (Quaternion, RotationMatrix and
\* TransformationMatrix define neither.)
BinaryOp(op, a, b) ==
    IF a.cls \in Arithmetic THEN Call__op(op, a, b)
    ELSE IF b.cls \in Arithmetic THEN Call__rop(op, b, a)
    ELSE Raise("TypeError")

---------------------------------------------------------------------------
(* dot *)

\* ca.mtimes(a, b), refused by the engine when the sizes do not fit
Mtimes(a, b) == IF MtimesFits(a, b) THEN Return(Plain("SX", SXmtimes(a, b))) ELSE Raise("RuntimeError")

\* x[:3].s for a column x
Head3(s) == Col(<<At(s, 0), At(s, 1), At(s, 2)>>)

\* Expression.dot
Expression__dot(self, other) ==
    IF other.cls = "Expression"
    THEN Then(IF Cols(self.s) = 1 /\ Cols(other.s) = 1
              THEN Mtimes(SXT(self.s), other.s) ELSE Mtimes(self.s, other.s),
              LAMBDA m : Return(Plain("Expression", m.s)))
    ELSE _operation_type_error

\* Point3.dot and Vector3.dot
Point3__dot(self, other) ==
    IF other.cls \in {"Point3", "Vector3"}
    THEN Return(Plain("Expression", SXmtimes(SXT(Head3(self.s)), Head3(other.s))))
    ELSE _operation_type_error

\* Quaternion.dot
Quaternion__dot(self, other) ==
    IF other.cls = "Quaternion"
    THEN Return(Plain("Expression", SXmtimes(SXT(self.s), other.s)))
    ELSE _operation_type_error

\* TransformationMatrix.dot
TransformationMatrix__dot(self, other) ==
    IF other.cls \in {"Vector3", "Point3", "RotationMatrix", "TransformationMatrix"}
    THEN Then(Mtimes(self.s, other.s),
              LAMBDA result :
                IF other.cls = "Vector3" THEN Vector3__init__(result, self.reference_frame)
                ELSE IF other.cls = "Point3" THEN Point3__init__(result, self.reference_frame)
                ELSE IF other.cls = "RotationMatrix"
                THEN RotationMatrix__init__(result, self.reference_frame, None, FALSE)
                ELSE TransformationMatrix__init__(result, self.reference_frame,
                                                  other.child_frame, FALSE))
    ELSE _operation_type_error

\* RotationMatrix.dot that wraps a product with a TransformationMatrix in a
\* RotationMatrix
RotationMatrix__dotKeepsClass(self, other) ==
    IF other.cls \in {"Vector3", "Point3", "RotationMatrix", "TransformationMatrix"}
    THEN Then(Mtimes(self.s, other.s),
              LAMBDA result :
                WithFrame(
                   IF other.cls = "Vector3" THEN Vector3__init__(result, None)
                   ELSE IF other.cls = "Point3" THEN Point3__init__(result, None)
                   ELSE RotationMatrix__init__(result, None, None, FALSE),
                   self.reference_frame))
    ELSE _operation_type_error

\* RotationMatrix.dot
RotationMatrix__dot(self, other) ==
    IF other.cls \in {"Vector3", "Point3", "RotationMatrix", "TransformationMatrix"}
    THEN Then(Mtimes(self.s, other.s),
              LAMBDA result :
                WithFrame(
                   IF other.cls = "Vector3" THEN Vector3__init__(result, None)
                   ELSE IF other.cls = "Point3" THEN Point3__init__(result, None)
                   ELSE IF other.cls = "RotationMatrix"
                   THEN RotationMatrix__init__(result, None, None, FALSE)
                   ELSE TransformationMatrix__init__(result, None, None, FALSE),
                   self.reference_frame))
    ELSE _operation_type_error

\* e1.dot(e2): the attribute lookup fails on a class that defines no dot
\* (Symbol, and plain numbers)
MethodDot(e1, e2) ==
    CASE e1.cls = "Expression" -> Expression__dot(e1, e2)
      [] e1.cls \in {"Point3", "Vector3"} -> Point3__dot(e1, e2)
      [] e1.cls = "Quaternion" -> Quaternion__dot(e1, e2)
      [] e1.cls = "TransformationMatrix" -> TransformationMatrix__dot(e1, e2)
      [] e1.cls = "RotationMatrix" -> RotationMatrix__dot(e1, e2)
      [] OTHER -> Raise("AttributeError")

\* try: r, except Exception: handler
Except(r, handler) == IF r.exc # "none" THEN handler ELSE r

\* dot(e1, e2) without the try/except
dotUncaught(e1, e2) == MethodDot(e1, e2)

\* dot(e1, e2): any exception of e1.dot(e2) is turned into the type error
dot(e1, e2) == Except(MethodDot(e1, e2), _operation_type_error)

---------------------------------------------------------------------------
(* Conditionals, norm, scale, cross *)

Geometric == {"Point3", "Vector3", "TransformationMatrix", "RotationMatrix", "Quaternion"}

\* ca.if_else(c, a, b), refused by the engine when the branches do not fit
ca_if_else(c, a, b) ==
    IF ~Fits(a, b) THEN Raise("RuntimeError")
    ELSE Return(Plain("SX", SXif_else_m(c[1][1], a, b)))

\* if_else(condition, if_result, else_result)
if_else(condition, if_result, else_result) ==
    IF if_result.cls \in Geometric /\ if_result.cls # else_result.cls
    THEN Raise("AssertionError")
    ELSE Then(ca_if_else(ExpressionS(condition), ExpressionS(if_result),
                         ExpressionS(else_result)),
              LAMBDA sx :
                CASE if_result.cls \in {"float", "Symbol", "Expression"} ->
                         Return(Expression(sx))
                  [] if_result.cls = "Point3" -> Point3__init__(sx, None)
                  [] if_result.cls = "Vector3" -> Vector3__init__(sx, None)
                  [] if_result.cls = "Quaternion" -> Quaternion__init__(sx, None)
                  [] if_result.cls = "RotationMatrix" ->
                         RotationMatrix__init__(sx, None, None, TRUE)
                  [] if_result.cls = "TransformationMatrix" ->
                         TransformationMatrix__init__(sx, None, None, TRUE))

\* if_eq_zero(condition, if_result, else_result)
if_eq_zero(condition, if_result, else_result) == if_else(condition, else_result, if_result)

\* ca.norm_2 of a column: the square root of the sum of squares
RECURSIVE SumSq(_, _)
SumSq(s, n) == IF n = 0 THEN Zero ELSE SXadd(SumSq(s, n - 1), SXmul(At(s, n - 1), At(s, n - 1)))

\* norm(v)
norm(v) ==
    IF v.cls \in {"Point3", "Vector3"}
    THEN Plain("Expression", Scalar(SXsqrt(SumSq(Head3(v.s), 3))))
    ELSE Plain("Expression", Scalar(SXsqrt(SumSq(ExpressionS(v), Numel(ExpressionS(v))))))

\* save_division(nominator, denominator) with if_nan left at its default
save_division(nominator, denominator) ==
    IF nominator.cls = "Point3" THEN Raise("TypeError")
    ELSE Then(if_eq_zero(denominator, Float(1), denominator),
              LAMBDA save_denominator :
                Then(BinaryOp("truediv", Float(1), save_denominator),
                     LAMBDA inverse :
                       Then(if_eq_zero(denominator,
                                       IF nominator.cls = "Vector3"
                                       THEN Vector3__init__(NoneObj, None).out
                                       ELSE Float(0),
                                       inverse),
                            LAMBDA factor : BinaryOp("mul", nominator, factor))))

\* scale(v, a)
scale(v, a) == Then(save_division(v, norm(v)), LAMBDA d : BinaryOp("mul", d, a))

\* Vector3.scale(a): the vector after self.s has been replaced
Vector3__scale(self, a) ==
    Then(scale(self, a), LAMBDA scaled : Return([self EXCEPT !.s = scaled.s]))

\* ca.cross(a, b) of two 3x1 columns
SXcross(a, b) ==
    Col(<<SXsub(SXmul(At(a, 1), At(b, 2)), SXmul(At(a, 2), At(b, 1))),
          SXsub(SXmul(At(a, 2), At(b, 0)), SXmul(At(a, 0), At(b, 2))),
          SXsub(SXmul(At(a, 0), At(b, 1)), SXmul(At(a, 1), At(b, 0)))>>)

\* Vector3.cross
Vector3__cross(self, other) ==
    WithFrame(Vector3__init__(Plain("SX", SXcross(Head3(self.s), Head3(other.s))), None),
              self.reference_frame)

\* cross(u, v)
cross(u, v) ==
    Then(Vector3__init__(u, None),
         LAMBDA u3 : Then(Vector3__init__(v, None), LAMBDA v3 : Vector3__cross(u3, v3)))

\* Point3.__neg__
Point3__neg__(self) ==
    WithFrame(Point3__init__(Plain("SX", SXnegate(self.s)), None), self.reference_frame)

\* Vector3.__neg__
Vector3__neg__(self) ==
    WithFrame(Vector3__init__(Plain("SX", SXnegate(self.s)), None), self.reference_frame)

---------------------------------------------------------------------------
(* Quaternion *)

\* Quaternion.__neg__
Quaternion__neg__(self) == Quaternion__init__(Plain("SX", SXnegate(self.s)), None)

\* Quaternion.conjugate
Quaternion__conjugate(self) ==
    Quaternion__init__(
        Plain("list", Col(<<SXneg(GetItem(self, 0)), SXneg(GetItem(self, 1)),
                            SXneg(GetItem(self, 2)), GetItem(self, 3)>>)),
        None)

\* Quaternion.multiply
Quaternion__multiply(self, q) ==
    LET x == GetItem(self, 0)
        y == GetItem(self, 1)
        z == GetItem(self, 2)
        w == GetItem(self, 3)
        qx == GetItem(q, 0)
        qy == GetItem(q, 1)
        qz == GetItem(q, 2)
        qw == GetItem(q, 3)
    IN Quaternion__init__(
         Plain("list", Col(<<
           SXadd(SXsub(SXadd(SXmul(x, qw), SXmul(y, qz)), SXmul(z, qy)), SXmul(w, qx)),
           SXadd(SXadd(SXadd(SXmul(SXneg(x), qz), SXmul(y, qw)), SXmul(z, qx)), SXmul(w, qy)),
           SXadd(SXadd(SXsub(SXmul(x, qy), SXmul(y, qx)), SXmul(z, qw)), SXmul(w, qz)),
           SXadd(SXsub(SXsub(SXmul(SXneg(x), qx), SXmul(y, qy)), SXmul(z, qz)), SXmul(w, qw))>>)),
         self.reference_frame)

\* Quaternion.diff
Quaternion__diff(self, q) == Quaternion__multiply(Quaternion__conjugate(self).out, q)

---------------------------------------------------------------------------
(* RotationMatrix and TransformationMatrix operations *)

\* RotationMatrix.from_axis_angle(axis, angle, reference_frame)
RotationMatrix__from_axis_angle(axis, angle, reference_frame) ==
    LET ax == axis.s
        an == angle.s[1][1]
        ct == SXcos(an)
        st == SXsin(an)
        vt == SXsub(One, ct)
        m_vt(k) == SXmul(At(ax, k), vt)
        m_st(k) == SXmul(At(ax, k), st)
        m_vt_0_ax(k) == SXmul(m_vt(0), At(ax, k + 1))
        m_vt_1_2 == SXmul(m_vt(1), At(ax, 2))
        ct__m_vt__axis(k) == SXadd(ct, SXmul(m_vt(k), At(ax, k)))
        s == << <<ct__m_vt__axis(0), SXadd(SXneg(m_st(2)), m_vt_0_ax(0)),
                  SXadd(m_st(1), m_vt_0_ax(1)), Zero>>,
                <<SXadd(m_st(2), m_vt_0_ax(0)), ct__m_vt__axis(1),
                  SXadd(SXneg(m_st(0)), m_vt_1_2), Zero>>,
                <<SXadd(SXneg(m_st(1)), m_vt_0_ax(1)), SXadd(m_st(0), m_vt_1_2),
                  ct__m_vt__axis(2), Zero>>,
                <<Zero, Zero, Zero, One>> >>
    IN RotationMatrix__init__(Plain("SX", s), reference_frame, None, FALSE)

\* RotationMatrix.from_rpy(roll, pitch, yaw, reference_frame)
RotationMatrix__from_rpy(roll, pitch, yaw, reference_frame) ==
    LET r == roll.s[1][1]
        p == pitch.s[1][1]
        y == yaw.s[1][1]
        s == << <<SXmul(SXcos(y), SXcos(p)),
                  SXsub(SXmul(SXmul(SXcos(y), SXsin(p)), SXsin(r)), SXmul(SXsin(y), SXcos(r))),
                  SXadd(SXmul(SXsin(y), SXsin(r)), SXmul(SXmul(SXcos(y), SXsin(p)), SXcos(r))),
                  Zero>>,
                <<SXmul(SXsin(y), SXcos(p)),
                  SXadd(SXmul(SXcos(y), SXcos(r)), SXmul(SXmul(SXsin(y), SXsin(p)), SXsin(r))),
                  SXsub(SXmul(SXmul(SXsin(y), SXsin(p)), SXcos(r)), SXmul(SXcos(y), SXsin(r))),
                  Zero>>,
                <<SXneg(SXsin(p)), SXmul(SXcos(p), SXsin(r)), SXmul(SXcos(p), SXcos(r)), Zero>>,
                <<Zero, Zero, Zero, One>> >>
    IN RotationMatrix__init__(Plain("SX", s), reference_frame, None, FALSE)

\* RotationMatrix.from_quaternion(q)
RotationMatrix__from_quaternion(q) ==
    RotationMatrix__init__(Plain("nested", QuaternionToRotationData(q)),
                           q.reference_frame, None, TRUE)

\* RotationMatrix.T
RotationMatrix__T(self) ==
    RotationMatrix__init__(Plain("SX", SXT(self.s)), self.reference_frame, None, TRUE)

\* RotationMatrix.inverse
RotationMatrix__inverse(self) == RotationMatrix__T(self)

\* TransformationMatrix.to_rotation
TransformationMatrix__to_rotation(self) == RotationMatrix__init__(self, None, None, TRUE)

\* self[:3, k] = scale(self[:3, k], 1.0) for one column k of a RotationMatrix
SetColumn(s, k, column) ==
    Set2(Set2(Set2(s, 0, k, At(column, 0)), 1, k, At(column, 1)), 2, k, At(column, 2))
NormalizeColumn(s, k) ==
    SetColumn(s, k,
              scale(Plain("Expression", Col(<<At2(s, 0, k), At2(s, 1, k), At2(s, 2, k)>>)),
                    Float(1)).out.s)

\* RotationMatrix.normalize
RotationMatrix__normalize(self) ==
    [self EXCEPT !.s = NormalizeColumn(NormalizeColumn(NormalizeColumn(self.s, 0), 1), 2)]

\* v.scale(1) when v is given, v itself when it is None
ScaledOrNone(v) == IF v.cls = "NoneType" THEN v ELSE Vector3__scale(v, Float(1)).out

\* cross(u, v) followed by scale(1) on the product
CrossScaled(u, v) == Vector3__scale(cross(u, v).out, Float(1)).out

\* The last two statements of from_vectors: R = cls([[...]]); R.normalize()
FromVectorsMatrix(x, y, z, reference_frame) ==
    IF x.cls = "NoneType" \/ y.cls = "NoneType" \/ z.cls = "NoneType"
    THEN Raise("TypeError")
    ELSE Then(RotationMatrix__init__(
                  Plain("nested",
                        << <<GetItem(x, 0), GetItem(y, 0), GetItem(z, 0), Zero>>,
                           <<GetItem(x, 1), GetItem(y, 1), GetItem(z, 1), Zero>>,
                           <<GetItem(x, 2), GetItem(y, 2), GetItem(z, 2), Zero>>,
                           <<Zero, Zero, Zero, One>> >>),
                  reference_frame, None, TRUE),
              LAMBDA R : Return(RotationMatrix__normalize(R)))

\* from_vectors once the vectors given have been scaled: the missing one is the
\* cross product of the other two
FromVectorsCompleted(x, y, z, reference_frame) ==
    FromVectorsMatrix(
        IF x.cls = "NoneType" /\ y.cls # "NoneType" /\ z.cls # "NoneType"
        THEN CrossScaled(y, z) ELSE x,
        IF x.cls # "NoneType" /\ y.cls = "NoneType" /\ z.cls # "NoneType"
        THEN CrossScaled(z, x) ELSE y,
        IF x.cls # "NoneType" /\ y.cls # "NoneType" /\ z.cls = "NoneType"
        THEN CrossScaled(x, y) ELSE z,
        reference_frame)

\* RotationMatrix.from_vectors(x, y, z, reference_frame)
RotationMatrix__from_vectors(x, y, z, reference_frame) ==
    FromVectorsCompleted(ScaledOrNone(x), ScaledOrNone(y), ScaledOrNone(z), reference_frame)

---------------------------------------------------------------------------
(* Numbers: the values an entry takes when the evaluator runs.  A number is *)
(* a reduced fraction <<n, d>> with d >= 1.                                 *)

RECURSIVE GCD(_, _)
GCD(a, b) == IF b = 0 THEN a ELSE GCD(b, a % b)
Abs(n) == IF n < 0 THEN 0 - n ELSE n

\* the number n / d, d # 0
Q(n, d) ==
    IF n = 0 /\ d = 0 THEN <<0, 0>>
    ELSE LET g == GCD(Abs(n), Abs(d))
             s == IF d < 0 THEN 0 - 1 ELSE 1
         IN <<(s * n) \div g, (s * d) \div g>>
QInt(n) == <<n, 1>>
QAdd(x, y) == Q(x[1] * y[2] + y[1] * x[2], x[2] * y[2])
QSub(x, y) == Q(x[1] * y[2] - y[1] * x[2], x[2] * y[2])
QMul(x, y) == Q(x[1] * y[1], x[2] * y[2])
\* x / y; a division by zero gives <<1, 0>>, <<-1, 0>> or <<0, 0>> (inf, nan)
QDiv(x, y) == Q(x[1] * y[2], x[2] * y[1])
\* the square root of a number that is the square of a fraction; <<0, 0>> for
\* any other number
IsSquare(n) == n >= 0 /\ \E r \in 0..n : r * r = n
IntSqrt(n) == CHOOSE r \in 0..n : r * r = n
QSqrt(x) == IF IsSquare(x[1]) /\ IsSquare(x[2]) THEN Q(IntSqrt(x[1]), IntSqrt(x[2]))
            ELSE <<0, 0>>
QLt(x, y) == x[1] * y[2] < y[1] * x[2]
QLe(x, y) == x[1] * y[2] <= y[1] * x[2]
QMin(x, y) == IF QLt(y, x) THEN y ELSE x
QMax(x, y) == IF QLt(x, y) THEN y ELSE x
QBool(b) == IF b THEN QInt(1) ELSE QInt(0)
QTrue(x) == x[1] # 0

\* a numeric constant the engine holds: an integer or a constant fraction
IsNum(t) == IsC(t) \/ IsFraction(t)
\* its value
Num(t) == IF IsC(t) THEN QInt(t[2]) ELSE Q(t[2][2], t[3][2])
\* the constant entry holding the number x
QTerm(x) == IF x[2] = 1 THEN C(x[1]) ELSE <<"div", C(x[1]), C(x[2])>>

\* 0.5
Half == <<"div", One, C(2)>>

\* ca.fmin(x, y), ca.fmax(x, y) on entries
SXfmin(x, y) == IF IsNum(x) /\ IsNum(y) THEN QTerm(QMin(Num(x), Num(y))) ELSE <<"fmin", x, y>>
SXfmax(x, y) == IF IsNum(x) /\ IsNum(y) THEN QTerm(QMax(Num(x), Num(y))) ELSE <<"fmax", x, y>>

\* ca.eq, ca.lt, ca.le on entries; ca.gt(x, y) is lt(y, x), ca.ge(x, y) is le(y, x)
SXeq(x, y) ==
    IF IsNum(x) /\ IsNum(y) THEN QTerm(QBool(Num(x) = Num(y)))
    ELSE IF x = y THEN One
    ELSE <<"eq", x, y>>
SXlt(x, y) == IF IsNum(x) /\ IsNum(y) THEN QTerm(QBool(QLt(Num(x), Num(y)))) ELSE <<"lt", x, y>>
SXle(x, y) == IF IsNum(x) /\ IsNum(y) THEN QTerm(QBool(QLe(Num(x), Num(y)))) ELSE <<"le", x, y>>
SXge(x, y) == SXle(y, x)
SXgt_(x, y) == SXlt(y, x)

\* ca.logic_and, ca.logic_or, ca.logic_not on entries
SXand(x, y) ==
    IF IsNum(x) /\ IsNum(y) THEN QTerm(QBool(QTrue(Num(x)) /\ QTrue(Num(y))))
    ELSE <<"and", x, y>>
SXor(x, y) ==
    IF IsNum(x) /\ IsNum(y) THEN QTerm(QBool(QTrue(Num(x)) \/ QTrue(Num(y))))
    ELSE <<"or", x, y>>
SXnot(x) ==
    IF IsNum(x) THEN QTerm(QBool(~QTrue(Num(x))))
    ELSE IF x[1] = "not" THEN x[2]
    ELSE <<"not", x>>

\* x.n_dep(): the number of operands of the node at the root of an entry
n_dep(t) == IF t[1] \in {"c", "sym"} \/ IsFraction(t) THEN 0 ELSE Len(t) - 1

\* ca.symvar(x) of an entry: its free symbols in order of first appearance
RECURSIVE symvar(_)
Append1(seq, n) == IF \E i \in 1..Len(seq) : seq[i] = n THEN seq ELSE Append(seq, n)
RECURSIVE Union1(_, _)
Union1(seq, more) ==
    IF Len(more) = 0 THEN seq ELSE Union1(Append1(seq, Head(more)), Tail(more))
symvar(t) ==
    IF t[1] = "c" THEN <<>>
    ELSE IF t[1] = "sym" THEN <<t[2]>>
    ELSE IF Len(t) = 2 THEN symvar(t[2])
    ELSE IF Len(t) = 3 THEN Union1(symvar(t[2]), symvar(t[3]))
    ELSE Union1(Union1(symvar(t[2]), symvar(t[3])), symvar(t[4]))

\* The value of an entry when every symbol holds the number env gives it: what
\* the evaluator computes for the entry
RECURSIVE Eval(_, _)
Eval(t, env) ==
    CASE t[1] = "c" -> QInt(t[2])
      [] t[1] = "sym" -> env[t[2]]
      [] t[1] = "div" /\ IsFraction(t) -> Num(t)
      [] t[1] = "div" /\ ~IsFraction(t) -> QDiv(Eval(t[2], env), Eval(t[3], env))
      [] t[1] = "sqrt" -> QSqrt(Eval(t[2], env))
      [] t[1] = "add" -> QAdd(Eval(t[2], env), Eval(t[3], env))
      [] t[1] = "sub" -> QSub(Eval(t[2], env), Eval(t[3], env))
      [] t[1] = "mul" -> QMul(Eval(t[2], env), Eval(t[3], env))
      [] t[1] = "neg" -> QSub(QInt(0), Eval(t[2], env))
      [] t[1] = "fmin" -> QMin(Eval(t[2], env), Eval(t[3], env))
      [] t[1] = "fmax" -> QMax(Eval(t[2], env), Eval(t[3], env))
      [] t[1] = "eq" -> QBool(Eval(t[2], env) = Eval(t[3], env))
      [] t[1] = "lt" -> QBool(QLt(Eval(t[2], env), Eval(t[3], env)))
      [] t[1] = "le" -> QBool(QLe(Eval(t[2], env), Eval(t[3], env)))
      [] t[1] = "gt" -> QBool(QLt(Eval(t[3], env), Eval(t[2], env)))
      [] t[1] = "and" -> QBool(QTrue(Eval(t[2], env)) /\ QTrue(Eval(t[3], env)))
      [] t[1] = "or" -> QBool(QTrue(Eval(t[2], env)) \/ QTrue(Eval(t[3], env)))
      [] t[1] = "not" -> QBool(~QTrue(Eval(t[2], env)))
      [] t[1] = "if_else" ->
             IF QTrue(Eval(t[2], env)) THEN Eval(t[3], env) ELSE Eval(t[4], env)

\* The value of every entry of a matrix
EvalMatrix(m, env) == [i \in 1..Rows(m) |-> [j \in 1..Cols(m) |-> Eval(m[i][j], env)]]

---------------------------------------------------------------------------
(* CompiledFunction *)

\* The positions of an r-by-c matrix in column-major order
ColumnMajor(r, c) == [k \in 1..(r * c) |-> <<((k - 1) % r) + 1, ((k - 1) \div r) + 1>>]

\* ca.sparsify taking the non-zeros row by row
NonzerosRowMajor(m) ==
    SelectSeq([k \in 1..Numel(m) |-> <<((k - 1) \div Cols(m)) + 1, ((k - 1) % Cols(m)) + 1>>],
              LAMBDA p : m[p[1]][p[2]] # Zero)

\* ca.sparsify(x): the structural non-zeros of x, in column-major order
Nonzeros(m) == SelectSeq(ColumnMajor(Rows(m), Cols(m)), LAMBDA p : m[p[1]][p[2]] # Zero)

\* x.sparsity().get_ccs(): <<colind, row>>, both counted from 0
get_ccs(m) ==
    LET nz == Nonzeros(m)
    IN << [j \in 1..(Cols(m) + 1) |-> Cardinality({k \in 1..Len(nz) : nz[k][2] < j})],
          [k \in 1..Len(nz) |-> nz[k][1] - 1] >>

\* scipy.sparse.csc_matrix((data, indices, indptr), shape)
csc_matrix(data, indices, indptr, shape) ==
    [kind |-> "csc", data |-> data, indices |-> indices, indptr |-> indptr, shape |-> shape]

\* numpy array of the given shape over the memory mem, order='F'
ndarray(mem, shape) == [kind |-> "ndarray", data |-> mem, shape |-> shape]

\* csc_matrix.toarray() and the entries of an ndarray: the rows of the array a
\* (a one-dimensional array is read as a column)
Slots(a, j) == {k \in 1..Len(a.data) : a.indptr[j] < k /\ k <= a.indptr[j + 1]}
toarray(a) ==
    IF a.kind = "csc"
    THEN [i \in 1..a.shape[1] |-> [j \in 1..a.shape[2] |->
             IF \E k \in Slots(a, j) : a.indices[k] = i - 1
             THEN a.data[CHOOSE k \in Slots(a, j) : a.indices[k] = i - 1]
             ELSE QInt(0)]]
    ELSE IF Len(a.shape) = 1
    THEN [i \in 1..a.shape[1] |-> <<a.data[i]>>]
    ELSE [i \in 1..a.shape[1] |-> [j \in 1..a.shape[2] |-> a.data[i + (j - 1) * a.shape[1]]]]

\* the memory of a two-dimensional array with the rows m, order='F'
Linear(m) == [k \in 1..Numel(m) |-> m[((k - 1) % Rows(m)) + 1][((k - 1) \div Rows(m)) + 1]]

\* ca.symvar of a matrix: the free symbols of its entries, column by column
RECURSIVE MatrixSymvar(_, _, _)
MatrixSymvar(m, order, k) ==
    IF k = 0 THEN <<>>
    ELSE Union1(MatrixSymvar(m, order, k - 1), symvar(m[order[k][1]][order[k][2]]))
\* Symbol_.free_symbols()
free_symbols(m) == MatrixSymvar(m, ColumnMajor(Rows(m), Cols(m)), Numel(m))

\* A parameters argument: None, a list of symbols, or a list of lists of symbols
NoParameters == [kind |-> "None", val |-> <<>>]
FlatParameters(names) == [kind |-> "flat", val |-> names]
NestedParameters(groups) == [kind |-> "nested", val |-> groups]

\* CompiledFunction.__init__, lines 57-62: self.symbol_parameters
SymbolParameters(expression, parameters) ==
    LET given == IF parameters.kind = "None" THEN free_symbols(expression)
                 ELSE parameters.val
    IN IF Len(given) > 0 /\ parameters.kind # "nested" THEN <<given>> ELSE given

\* A CompiledFunction that has not been constructed
NoArray == ndarray(<<>>, <<0>>)
NoCF ==
    [compiled |-> FALSE, expression |-> <<>>, symbol_parameters |-> <<>>,
     sparse |-> FALSE, closure |-> "none", hasOut |-> FALSE, out |-> NoArray,
     result |-> NoArray, argset |-> <<>>, runs |-> 0,
     expressions |-> <<>>, split_out_view |-> <<>>]

\* The values the evaluator reads: the symbol at place j of group g holds entry
\* j of the array in slot g
EnvOf(symbol_parameters, slots) ==
    [n \in Names |->
        LET at == {p \in {<<g, j>> : g \in 1..Len(symbol_parameters), j \in 1..Cardinality(Names)} :
                     /\ p[2] <= Len(symbol_parameters[p[1]])
                     /\ symbol_parameters[p[1]][p[2]] = n}
        IN IF at = {} THEN QInt(0)
           ELSE LET p == CHOOSE p \in at : TRUE IN slots[p[1]][p[2]]]

\* self.function_evaluator(): the engine writes the result into the memory of
\* self.out, all entries column by column in dense mode, the structural
\* non-zeros column by column in sparse mode
function_evaluator(self, slots) ==
    LET env == EnvOf(self.symbol_parameters, slots)
        m == self.expression
        order == IF self.sparse THEN Nonzeros(m) ELSE ColumnMajor(Rows(m), Cols(m))
    IN [self EXCEPT
          !.out.data = [k \in 1..Len(order) |-> Eval(m[order[k][1]][order[k][2]], env)],
          !.runs = self.runs + 1]

\* CompiledFunction.__init__(expression, parameters, sparse)
CompiledFunction__init__(expression, parameters, sparse) ==
    LET symbol_parameters == SymbolParameters(expression, parameters)
        shape == Shape(expression)
        self == [NoCF EXCEPT !.compiled = TRUE, !.expression = expression,
                             !.symbol_parameters = symbol_parameters,
                             !.sparse = sparse,
                             !.argset = [g \in 1..Len(symbol_parameters) |-> FALSE]]
    IN IF Rows(expression) = 0 /\ sparse
       THEN [self EXCEPT !.closure = "empty",
                         !.result = csc_matrix(<<>>, <<>>, [j \in 1..(shape[2] + 1) |-> 0], shape)]
       ELSE LET ccs == get_ccs(expression)
                csc_indices == ccs[1]
                csc_indptr == ccs[2]
                out == IF sparse
                       THEN csc_matrix([k \in 1..Len(csc_indptr) |-> QInt(0)],
                                       csc_indptr, csc_indices, shape)
                       ELSE ndarray([k \in 1..Numel(expression) |-> QInt(0)],
                                    IF shape[2] <= 1 THEN <<shape[1]>> ELSE shape)
                built == [self EXCEPT !.hasOut = TRUE, !.out = out]
            IN IF Len(symbol_parameters) = 0
               THEN LET ran == function_evaluator(built, <<>>)
                    IN [ran EXCEPT !.closure = "constant",
                                   !.result = IF sparse
                                              THEN ndarray(Linear(toarray(ran.out)), shape)
                                              ELSE ran.out]
               ELSE built

\* A reference to an array: the object it points to, self.out, the result the
\* closures of a function without parameters hold, or an array of its own
OutBuffer == [obj |-> "out", snap |-> NoArray]
ClosureResult == [obj |-> "result", snap |-> NoArray]
NoRef == [obj |-> "none", snap |-> NoArray]

\* The contents of the array a reference points to
Deref(self, ref) ==
    IF ref.obj = "out" THEN self.out
    ELSE IF ref.obj = "result" THEN self.result
    ELSE ref.snap

\* The arrays the evaluator reads after fast_call(*args): slot g holds the
\* array passed for it; a slot no array was passed for holds zeros when it was
\* never set, and whatever the memory of the array of an earlier call now holds
\* (stale[g]) when it was
SlotsRead(self, args, stale) ==
    [g \in 1..Len(self.symbol_parameters) |->
        IF g <= Len(args) THEN args[g]
        ELSE IF self.argset[g] THEN stale[g]
        ELSE [j \in 1..Len(self.symbol_parameters[g]) |-> QInt(0)]]

\* fast_call of a function without the closures of lines 96-103
fast_callNoClosure(self, args, stale) ==
    << [function_evaluator(self, SlotsRead(self, args, stale)) EXCEPT
          !.argset = [g \in 1..Len(self.argset) |-> self.argset[g] \/ g <= Len(args)]],
       OutBuffer >>

\* fast_call returning a copy of the buffer
fast_callCopy(self, args, stale) ==
    LET after == function_evaluator(self, SlotsRead(self, args, stale))
    IN IF self.closure # "none"
       THEN <<self, IF self.closure = "constant" /\ ~self.sparse THEN OutBuffer ELSE ClosureResult>>
       ELSE << [after EXCEPT
                  !.argset = [g \in 1..Len(self.argset) |-> self.argset[g] \/ g <= Len(args)]],
               [obj |-> "copy", snap |-> after.out] >>

\* CompiledFunction.fast_call(*args): <<self afterwards, the reference returned>>
fast_call(self, args, stale) ==
    IF self.closure # "none"
    THEN <<self, IF self.closure = "constant" /\ ~self.sparse THEN OutBuffer ELSE ClosureResult>>
    ELSE << [function_evaluator(self, SlotsRead(self, args, stale)) EXCEPT
               !.argset = [g \in 1..Len(self.argset) |-> self.argset[g] \/ g <= Len(args)]],
            OutBuffer >>

\* No call yet, no reference kept, no helper applied
NoCall == [kind |-> "none", args |-> <<>>, kwargs |-> <<>>, ret |-> NoRef, value |-> NoArray]
NoKept == [ref |-> NoRef, seen |-> NoArray]
NoApp == [f |-> "", args |-> <<>>, out |-> NoneObj]
\* The caller holds no compiled function and has applied no helper
\* no object has been built and no call made on one
NoRet == [f |-> "", self |-> 0, out |-> <<>>]
NoMemory ==
    /\ heap = <<>>
    /\ objs = <<>>
    /\ ret = NoRet

NoProgram ==
    /\ compiled_f = NoCF
    /\ call = NoCall
    /\ kept = NoKept
    /\ app = NoApp

\* kwargs[name] for keywords written as a sequence of <<name, value>>
Lookup(kwargs, name) == kwargs[CHOOSE i \in 1..Len(kwargs) : kwargs[i][1] = name][2]

RECURSIVE Flatten(_)
Flatten(groups) == IF Len(groups) = 0 THEN <<>> ELSE Head(groups) \o Flatten(Tail(groups))

\* CompiledFunction.__call__(**kwargs)
CompiledFunction__call__(self, kwargs, stale) ==
    LET params == Flatten(self.symbol_parameters)
        filtered_args == [k \in 1..Len(params) |-> Lookup(kwargs, params[k])]
    IN fast_call(self, <<filtered_args>>, stale)

---------------------------------------------------------------------------
(* StackedCompiledFunction *)

\* vstack(list_of_matrices): ca.vertcat of the matrices
vstack(list_of_matrices) == Flatten(list_of_matrices)

\* the row at which expression k of the list ends in the combined expression
RECURSIVE RowsBefore(_, _)
RowsBefore(expressions, k) ==
    IF k = 0 THEN 0 ELSE RowsBefore(expressions, k - 1) + Rows(expressions[k])

\* np.split taking the indices as the lengths of the sections
np_splitLengths(n, indices) ==
    [i \in 1..(Len(indices) + 1) |->
        << 0, IF i = Len(indices) + 1 THEN n ELSE indices[i] >>]

\* np.split(ary, indices) along the first axis of an array with n rows: the
\* views ary[:i1], ary[i1:i2], ..., ary[ik:], each a pair <<start, stop>>
np_split(n, indices) ==
    [i \in 1..(Len(indices) + 1) |->
        << IF i = 1 THEN 0 ELSE indices[i - 1],
           IF i = Len(indices) + 1 THEN n ELSE indices[i] >>]

\* StackedCompiledFunction.__init__(expressions, parameters, additional_views);
\* the record is self.compiled_f together with self.split_out_view
StackedCompiledFunction__init__(expressions, parameters, additional_views) ==
    LET combined_expression == vstack(expressions)
        slices == [k \in 1..(Len(expressions) - 1) |-> RowsBefore(expressions, k)]
    IN [CompiledFunction__init__(combined_expression, parameters, FALSE) EXCEPT
          !.expressions = expressions,
          !.split_out_view = np_split(Rows(combined_expression), slices) \o additional_views]

\* the rows a view <<start, stop>> of the array a shows
View(a, v) == SubSeq(toarray(a), v[1] + 1, v[2])

\* StackedCompiledFunction.fast_call(*args): <<self afterwards, the views returned>>
Stacked__fast_call(self, args) == <<fast_call(self, args, <<>>)[1], self.split_out_view>>

---------------------------------------------------------------------------
(* Two- and three-valued logic, ordering helpers *)

\* TrinaryFalse = 0, TrinaryUnknown = 0.5, TrinaryTrue = 1: Python numbers
TrinaryFalse == Plain("float", Scalar(Zero))
TrinaryUnknown == Plain("float", Scalar(Half))
TrinaryTrue == Plain("float", Scalar(One))
\* BinaryTrue = Expression(True), BinaryFalse = Expression(False)
BinaryTrue == Expression(Float(1))
BinaryFalse == Expression(Float(0))

\* the entry of a scalar object
Entry(x) == x.s[1][1]
\* a ca.SX scalar
SX(t) == Plain("SX", Scalar(t))

\* (expr == constant).to_np() inside try/except: a Symbol compares by hash and
\* the bool it gives has no to_np; any other scalar is compared by the engine,
\* and the comparison has a value only when the scalar is a constant
EqualsConstant(expr, constant) ==
    /\ expr.cls # "Symbol"
    /\ IsScalar(expr.s)
    /\ IsNum(Entry(expr))
    /\ SXeq(Entry(expr), Entry(constant)) = One
is_true_symbol(expr) == EqualsConstant(expr, BinaryTrue)
is_false_symbol(expr) == EqualsConstant(expr, BinaryFalse)

\* the arguments that are not the constant true (false)
NotTrue(args) == SelectSeq(args, LAMBDA x : ~is_true_symbol(x))
NotFalse(args) == SelectSeq(args, LAMBDA x : ~is_false_symbol(x))
AnyTrue(args) == \E i \in 1..Len(args) : is_true_symbol(args[i])
AnyFalse(args) == \E i \in 1..Len(args) : is_false_symbol(args[i])

\* min(x, y), max(x, y)
min(x, y) == Expression(SX(SXfmin(Entry(x), Entry(y))))
max(x, y) == Expression(SX(SXfmax(Entry(x), Entry(y))))

\* logic_and(*args), len(args) >= 2
RECURSIVE logic_and(_)
logic_and(given) ==
    IF AnyFalse(given) THEN BinaryFalse
    ELSE LET args == NotTrue(given)
         IN IF Len(args) = 0 THEN BinaryTrue
            ELSE IF Len(args) = 1 THEN args[1]
            ELSE IF Len(args) = 2
            THEN Expression(SX(SXand(Entry(args[1]), Entry(args[2]))))
            ELSE Expression(SX(SXand(Entry(args[1]), Entry(logic_and(Tail(args))))))

\* logic_or combining only the first two of the remaining arguments
RECURSIVE logic_orFirstTwo(_)
logic_orFirstTwo(given) ==
    IF AnyTrue(given) THEN BinaryTrue
    ELSE LET args == NotFalse(given)
         IN IF Len(args) = 0 THEN BinaryFalse
            ELSE IF Len(args) = 1 THEN args[1]
            ELSE Expression(SX(SXor(Entry(args[1]), Entry(args[2]))))

\* logic_or(*args), len(args) >= 2, simplify=True; the recursive call passes
\* False as one more positional argument
RECURSIVE logic_or(_)
logic_or(given) ==
    IF AnyTrue(given) THEN BinaryTrue
    ELSE LET args == NotFalse(given)
         IN IF Len(args) = 0 THEN BinaryFalse
            ELSE IF Len(args) = 1 THEN args[1]
            ELSE IF Len(args) = 2
            THEN Expression(SX(SXor(Entry(args[1]), Entry(args[2]))))
            ELSE Expression(SX(SXor(Entry(args[1]),
                                    Entry(logic_or(Append(Tail(args), Float(0)))))))

\* logic_not(expr)
logic_not(expr) == Expression(SX(SXnot(Entry(expr))))

\* logic_and3(*args), len(args) >= 2
RECURSIVE logic_and3(_)
logic_and3(given) ==
    IF AnyFalse(given) THEN TrinaryFalse
    ELSE LET args == NotTrue(given)
         IN IF Len(args) = 0 THEN TrinaryTrue
            ELSE IF Len(args) = 1 THEN args[1]
            ELSE IF Len(args) = 2 THEN min(args[1], args[2])
            ELSE logic_and3(<<args[1], logic_and3(Tail(args))>>)

\* logic_or3 by the minimum
logic_or3Min(a, b) == min(a, b)

\* logic_or3(a, b)
logic_or3(a, b) == max(a, b)

\* logic_not3(expr): Expression(1 - expr)
logic_not3(expr) ==
    Expression(SX(IF IsNum(Entry(expr))
                  THEN QTerm(QSub(QInt(1), Num(Entry(expr))))
                  ELSE SXsub(One, Entry(expr))))

\* replace_with_three_logic returning its argument
replace_with_three_logicKeeps(expr) == expr

\* replace_with_three_logic(expr)
RECURSIVE replace_with_three_logic(_)
replace_with_three_logic(expr) ==
    LET cas_expr == Entry(expr)
    IN IF n_dep(cas_expr) = 0
       THEN IF is_true_symbol(SX(cas_expr)) THEN TrinaryTrue
            ELSE IF is_false_symbol(SX(cas_expr)) THEN TrinaryFalse
            ELSE expr
       ELSE IF cas_expr[1] = "not"
       THEN logic_not3(replace_with_three_logic(SX(cas_expr[2])))
       ELSE IF cas_expr[1] = "and"
       THEN logic_and3(<<replace_with_three_logic(SX(cas_expr[2])),
                         replace_with_three_logic(SX(cas_expr[3]))>>)
       ELSE IF cas_expr[1] = "or"
       THEN logic_or3(replace_with_three_logic(SX(cas_expr[2])),
                      replace_with_three_logic(SX(cas_expr[3])))
       ELSE expr

\* if_greater(a, b, if_result, else_result)
if_greater(a, b, if_result, else_result) ==
    if_else(SX(SXgt(Entry(a), Entry(b))), if_result, else_result)
\* if_less
if_less(a, b, if_result, else_result) ==
    if_else(SX(SXlt(Entry(a), Entry(b))), if_result, else_result)
\* if_greater_zero
if_greater_zero(condition, if_result, else_result) ==
    if_else(SX(SXgt(Entry(condition), Zero)), if_result, else_result)
\* if_greater_eq
if_greater_eq(a, b, if_result, else_result) ==
    if_else(SX(SXge(Entry(a), Entry(b))), if_result, else_result)
\* if_greater_eq_zero
if_greater_eq_zero(condition, if_result, else_result) ==
    if_greater_eq(condition, Float(0), if_result, else_result)
\* if_less_eq with its operands in the order given
if_less_eqNoSwap(a, b, if_result, else_result) == if_greater_eq(a, b, if_result, else_result)
\* if_less_eq
if_less_eq(a, b, if_result, else_result) == if_greater_eq(b, a, if_result, else_result)
\* if_eq
if_eq(a, b, if_result, else_result) ==
    if_else(SX(SXeq(Entry(a), Entry(b))), if_result, else_result)

\* the loop of if_eq_cases: result = ca.if_else(ca.eq(a, b), b_result, result)
\* for each (b, b_result) of the list in order
RECURSIVE if_eq_casesLoop(_, _, _)
if_eq_casesLoop(a, b_result_cases, result) ==
    IF Len(b_result_cases) = 0 THEN result
    ELSE if_eq_casesLoop(a, Tail(b_result_cases),
                         SXif_else(SXeq(a, Entry(b_result_cases[1][1])),
                                   Entry(b_result_cases[1][2]), result))

\* if_eq_cases(a, b_result_cases, else_result)
if_eq_cases(a, b_result_cases, else_result) ==
    Expression(SX(if_eq_casesLoop(Entry(a), b_result_cases, Entry(else_result))))

\* groups = defaultdict(list); groups[res].append(h): the results in the order
\* of their first occurrence, each with the keys that map to it
RECURSIVE Results(_)
Results(b_result_cases) ==
    IF Len(b_result_cases) = 0 THEN <<>>
    ELSE LET before == Results(SubSeq(b_result_cases, 1, Len(b_result_cases) - 1))
             outcome == b_result_cases[Len(b_result_cases)][2]
         IN IF \E i \in 1..Len(before) : before[i] = outcome THEN before
            ELSE Append(before, outcome)
HashList(b_result_cases, outcome) ==
    LET mine == SelectSeq(b_result_cases, LAMBDA c : c[2] = outcome)
    IN [i \in 1..Len(mine) |-> mine[i][1]]
grouped_cases(b_result_cases) ==
    LET results == Results(b_result_cases)
    IN [i \in 1..Len(results) |-> <<HashList(b_result_cases, results[i]), results[i]>>]

\* the condition of a group testing its first key only
GroupConditionFirstKey(a, hash_list) == SXeq(a, Entry(hash_list[1]))

\* the condition of a group: logic_or(*[ca.eq(a, h) for h in hash_list], False)
\* for two or more keys, ca.eq(a, hash_list[0]) for one
GroupCondition(a, hash_list) ==
    IF Len(hash_list) >= 2
    THEN Entry(logic_or(Append([i \in 1..Len(hash_list) |->
                                    SX(SXeq(a, Entry(hash_list[i])))], Float(0))))
    ELSE SXeq(a, Entry(hash_list[1]))

\* the loop of if_eq_cases_grouped over grouped_cases
RECURSIVE if_eq_cases_groupedLoop(_, _, _)
if_eq_cases_groupedLoop(a, groups, result) ==
    IF Len(groups) = 0 THEN result
    ELSE if_eq_cases_groupedLoop(a, Tail(groups),
                                 SXif_else(GroupCondition(a, groups[1][1]),
                                           Entry(groups[1][2]), result))

\* if_eq_cases_grouped(a, b_result_cases, else_result)
if_eq_cases_grouped(a, b_result_cases, else_result) ==
    Expression(SX(if_eq_cases_groupedLoop(Entry(a), grouped_cases(b_result_cases),
                                          Entry(else_result))))

\* the loop of if_less_eq_cases running over the cases first to last
RECURSIVE if_less_eq_casesForward(_, _, _, _)
if_less_eq_casesForward(a, b_result_cases, i, result) ==
    IF i = 0 THEN result
    ELSE if_less_eq_casesForward(a, b_result_cases, i - 1,
             SXif_else(SXle(a, Entry(b_result_cases[Len(b_result_cases) + 1 - i][1])),
                       Entry(b_result_cases[Len(b_result_cases) + 1 - i][2]), result))

\* the loop of if_less_eq_cases: for i in reversed(range(len(b_result_cases))),
\* result = ca.if_else(ca.le(a, b), b_result, result); i cases are still to do
RECURSIVE if_less_eq_casesLoop(_, _, _, _)
if_less_eq_casesLoop(a, b_result_cases, i, result) ==
    IF i = 0 THEN result
    ELSE if_less_eq_casesLoop(a, b_result_cases, i - 1,
             SXif_else(SXle(a, Entry(b_result_cases[i][1])),
                       Entry(b_result_cases[i][2]), result))

\* if_less_eq_cases(a, b_result_cases, else_result)
if_less_eq_cases(a, b_result_cases, else_result) ==
    Expression(SX(if_less_eq_casesLoop(Entry(a), b_result_cases, Len(b_result_cases),
                                       Entry(else_result))))

---------------------------------------------------------------------------
(* Objects that share casadi matrices.  A Python object holds a reference   *)
(* to its SX matrix: objs[i].s is an address into heap, and an in-place      *)
(* write through one object is seen through every object with that address. *)

\* what self.s is bound to by TransformationMatrix.__init__: the SX object of
\* the data handed in, or an SX object of its own
TransformationMatrix__s(data) ==
    IF data.cls \in {"SX", "Expression", "RotationMatrix", "TransformationMatrix"}
    THEN "data.s" ELSE "new"

\* RotationMatrix.__init__ keeping the SX object of a matrix handed in
RotationMatrix__sShared(data) ==
    IF data.cls \in {"SX", "RotationMatrix", "TransformationMatrix"} THEN "data.s" ELSE "new"

\* what self.s is bound to by RotationMatrix.__init__: copy(data.s) is an SX
\* object of its own
RotationMatrix__s(data) == IF data.cls = "SX" THEN "data.s" ELSE "new"

\* An object the caller holds: the value-level object with s replaced by the
\* address of its SX matrix, the cache of to_np (<<>> while the attribute
\* np_data is not set), and the call that made it
Held(o, address, f, from) ==
    [cls |-> o.cls, s |-> address, reference_frame |-> o.reference_frame,
     child_frame |-> o.child_frame, vis_frame |-> o.vis_frame,
     np_data |-> <<>>, made_by |-> f, made_from |-> from]

\* The object as the functions of the library see it: its entries looked up
ValueAt(o, h) == Obj(o.cls, h[o.s], o.reference_frame, o.child_frame, o.vis_frame)
Value(i) == ValueAt(objs[i], heap)

\* The state after a constructor or classmethod built the object o from
\* objs[i]: o's entries are in the SX object of objs[i], or in a new one
Build(f, i, binding, o) ==
    /\ heap' = IF binding = "data.s" THEN [heap EXCEPT ![objs[i].s] = o.s]
               ELSE Append(heap, o.s)
    /\ objs' = Append(objs, Held(o, IF binding = "data.s" THEN objs[i].s ELSE Len(heap) + 1,
                                 f, i))
    /\ ret' = [f |-> f, self |-> i, out |-> Len(objs) + 1]

\* TransformationMatrix.from_point_rotation_matrix(point, rotation_matrix,
\* reference_frame, child_frame) for a rotation_matrix and a point given
TransformationMatrix__from_point_rotation_matrix(point, rotation_matrix, reference_frame, child_frame) ==
    Then(TransformationMatrix__init__(rotation_matrix, reference_frame, child_frame, FALSE),
         LAMBDA a_T_b :
            Return([a_T_b EXCEPT !.s = Set2(Set2(Set2(a_T_b.s, 0, 3, GetItem(point, 0)),
                                                  1, 3, GetItem(point, 1)),
                                            2, 3, GetItem(point, 2))]))

\* self[:3, :3].s and self[:3, 3] of a 4x4 matrix: the rotation block, and the
\* translation as a sequence
Block(m) == [i \in 1..3 |-> [j \in 1..3 |-> m[i][j]]]
Translation(m) == [i \in 1..3 |-> m[i][4]]

\* inv[:3, :3] = block; inv[:3, 3] = column, on the identity
InverseMatrix(block, column) ==
    [i \in 1..4 |-> [j \in 1..4 |->
        IF i <= 3 /\ j <= 3 THEN block[i][j]
        ELSE IF i <= 3 THEN column[i][1]
        ELSE SXeye(4)[i][j]]]

\* TransformationMatrix.inverse with the translation not negated
TransformationMatrix__inverseNotNegated(self) ==
    Then(dot(Plain("Expression", SXT(Block(self.s))),
             Plain("Expression", Col(Translation(self.s)))),
         LAMBDA column :
            Return(Obj("TransformationMatrix",
                       InverseMatrix(SXT(Block(self.s)), column.s),
                       self.child_frame, self.reference_frame, None)))

\* TransformationMatrix.inverse
TransformationMatrix__inverse(self) ==
    Then(dot(Plain("Expression", SXnegate(SXT(Block(self.s)))),
             Plain("Expression", Col(Translation(self.s)))),
         LAMBDA column :
            Return(Obj("TransformationMatrix",
                       InverseMatrix(SXT(Block(self.s)), column.s),
                       self.child_frame, self.reference_frame, None)))

\* ca.evalf(self.s): the numbers of a matrix without free symbols
evalf(m) == [i \in 1..Rows(m) |-> [j \in 1..Cols(m) |-> Num(m[i][j])]]
IsNumeric(m) == \A i \in 1..Rows(m) : \A j \in 1..Cols(m) : IsNum(m[i][j])

\* Symbol_.to_np: np_data is computed when the attribute is not set yet
to_np(np_data, m) == IF np_data = <<>> THEN evalf(m) ELSE np_data

\* self[:4, 3:]: the last column of a 4x4 matrix, as an Expression
Rows4FromColumn3(self) ==
    Plain("Expression", Col(<<self.s[1][4], self.s[2][4], self.s[3][4], self.s[4][4]>>))

\* RotationMatrix.x_vector, y_vector and z_vector: the three have one body
RotationMatrix__x_vector(self) == Vector3__init__(Rows4FromColumn3(self), self.reference_frame)
RotationMatrix__y_vector(self) == Vector3__init__(Rows4FromColumn3(self), self.reference_frame)
RotationMatrix__z_vector(self) == Vector3__init__(Rows4FromColumn3(self), self.reference_frame)

\* trace(matrix): s = 0; s += matrix[i, i] for each i
RECURSIVE trace(_, _)
trace(matrix, n) == IF n = 0 THEN Zero ELSE SXadd(trace(matrix, n - 1), matrix[n][n])

\* if_greater_zero(condition, if_result, else_result) on entries
IfGreaterZero(condition, if_result, else_result) ==
    SXif_else(SXgt(condition, Zero), if_result, else_result)

\* the nine m_i_i .. m_k_k of from_rotation_matrix after the test of if1: the
\* entries of r with the axes taken in the order y, z, x or x, y, z
AxesByIf1(r, if1) ==
    [ii |-> IfGreaterZero(if1, At2(r, 1, 1), At2(r, 0, 0)),
     ij |-> IfGreaterZero(if1, At2(r, 1, 2), At2(r, 0, 1)),
     ik |-> IfGreaterZero(if1, At2(r, 1, 0), At2(r, 0, 2)),
     ji |-> IfGreaterZero(if1, At2(r, 2, 1), At2(r, 1, 0)),
     jj |-> IfGreaterZero(if1, At2(r, 2, 2), At2(r, 1, 1)),
     jk |-> IfGreaterZero(if1, At2(r, 2, 0), At2(r, 1, 2)),
     ki |-> IfGreaterZero(if1, At2(r, 0, 1), At2(r, 2, 0)),
     kj |-> IfGreaterZero(if1, At2(r, 0, 2), At2(r, 2, 1)),
     kk |-> IfGreaterZero(if1, At2(r, 0, 0), At2(r, 2, 2))]

\* the nine after the test of if2: the order z, x, y, or the order kept
AxesByIf2(r, if2, m) ==
    [ii |-> IfGreaterZero(if2, At2(r, 2, 2), m.ii),
     ij |-> IfGreaterZero(if2, At2(r, 2, 0), m.ij),
     ik |-> IfGreaterZero(if2, At2(r, 2, 1), m.ik),
     ji |-> IfGreaterZero(if2, At2(r, 0, 2), m.ji),
     jj |-> IfGreaterZero(if2, At2(r, 0, 0), m.jj),
     jk |-> IfGreaterZero(if2, At2(r, 0, 1), m.jk),
     ki |-> IfGreaterZero(if2, At2(r, 1, 2), m.ki),
     kj |-> IfGreaterZero(if2, At2(r, 1, 0), m.kj),
     kk |-> IfGreaterZero(if2, At2(r, 1, 1), m.kk)]

\* t = if_greater_zero(if0, t, m_i_i - (m_j_j + m_k_k) + r[3, 3])
ScaleTerm(r, if0, t, m) ==
    IfGreaterZero(if0, t, SXadd(SXsub(m.ii, SXadd(m.jj, m.kk)), At2(r, 3, 3)))

\* q[0] .. q[3] with q[3] = if_greater_zero(if0, t, m_j_k - m_k_j)
QuaternionEntriesSwapped(r, if0, if1, if2, t, m) ==
    Col(<<IfGreaterZero(if0, SXsub(At2(r, 2, 1), At2(r, 1, 2)),
              IfGreaterZero(if2, SXadd(m.ij, m.ji),
                  IfGreaterZero(if1, SXadd(m.ki, m.ik), t))),
          IfGreaterZero(if0, SXsub(At2(r, 0, 2), At2(r, 2, 0)),
              IfGreaterZero(if2, SXadd(m.ki, m.ik),
                  IfGreaterZero(if1, t, SXadd(m.ij, m.ji)))),
          IfGreaterZero(if0, SXsub(At2(r, 1, 0), At2(r, 0, 1)),
              IfGreaterZero(if2, t,
                  IfGreaterZero(if1, SXadd(m.ij, m.ji), SXadd(m.ki, m.ik)))),
          IfGreaterZero(if0, t, SXsub(m.jk, m.kj))>>)

\* q[0] .. q[3] before the scaling
QuaternionEntries(r, if0, if1, if2, t, m) ==
    Col(<<IfGreaterZero(if0, SXsub(At2(r, 2, 1), At2(r, 1, 2)),
              IfGreaterZero(if2, SXadd(m.ij, m.ji),
                  IfGreaterZero(if1, SXadd(m.ki, m.ik), t))),
          IfGreaterZero(if0, SXsub(At2(r, 0, 2), At2(r, 2, 0)),
              IfGreaterZero(if2, SXadd(m.ki, m.ik),
                  IfGreaterZero(if1, t, SXadd(m.ij, m.ji)))),
          IfGreaterZero(if0, SXsub(At2(r, 1, 0), At2(r, 0, 1)),
              IfGreaterZero(if2, t,
                  IfGreaterZero(if1, SXadd(m.ij, m.ji), SXadd(m.ki, m.ik)))),
          IfGreaterZero(if0, t, SXsub(m.kj, m.jk))>>)

\* if0, if1, if2 and the nine entries of from_rotation_matrix
If0(r) == SXsub(trace(r, Rows(r)), At2(r, 3, 3))
If1(r) == SXsub(At2(r, 1, 1), At2(r, 0, 0))
If2(r) == SXsub(At2(r, 2, 2), AxesByIf1(r, If1(r)).ii)
AxesChosen(r) == AxesByIf2(r, If2(r), AxesByIf1(r, If1(r)))
\* t * r[3, 3], the term under the square root
ScaleSquared(r) ==
    SXmul(ScaleTerm(r, If0(r), trace(r, Rows(r)), AxesChosen(r)), At2(r, 3, 3))

\* Quaternion.from_rotation_matrix(r): q *= 0.5 / sqrt(t * r[3, 3]); cls(q, ...)
Quaternion__from_rotation_matrix(r) ==
    Quaternion__init__(
        Plain("Expression",
              SXbinary("mul",
                       QuaternionEntries(r.s, If0(r.s), If1(r.s), If2(r.s),
                                         ScaleTerm(r.s, If0(r.s), trace(r.s, Rows(r.s)),
                                                   AxesChosen(r.s)),
                                         AxesChosen(r.s)),
                       Scalar(SXdiv(Half, SXsqrt(ScaleSquared(r.s)))))),
        r.reference_frame)

\* the derivative of an entry with respect to the symbol called x, for entries
\* built with +, -, * and negation
RECURSIVE Derivative(_, _)
Derivative(t, x) ==
    CASE t[1] = "c" -> Zero
      [] t[1] = "sym" -> IF t[2] = x THEN One ELSE Zero
      [] t[1] = "add" -> SXadd(Derivative(t[2], x), Derivative(t[3], x))
      [] t[1] = "sub" -> SXsub(Derivative(t[2], x), Derivative(t[3], x))
      [] t[1] = "neg" -> SXneg(Derivative(t[2], x))
      [] t[1] = "mul" -> SXadd(SXmul(Derivative(t[2], x), t[3]),
                               SXmul(t[2], Derivative(t[3], x)))

\* ca.hessian(expr, symbols)[0] for a column of symbols
ca_hessian(expr, symbols) ==
    [i \in 1..Rows(symbols) |-> [j \in 1..Rows(symbols) |->
        Derivative(Derivative(expr, symbols[j][1][2]), symbols[i][1][2])]]

\* m.reshape((r, c)): the entries keep their column-major order
SXreshape(m, r, c) ==
    [i \in 1..r |-> [j \in 1..c |-> At(m, (j - 1) * r + (i - 1))]]

\* the list v of total_derivative2 with symbols_dot[i] * symbols_dot[j] for
\* every pair, also for i = j
VelocityTermsOnly(symbols, symbols_dot, symbols_ddot) ==
    [k \in 1..(Len(symbols) * Len(symbols)) |->
        SXmul(symbols_dot[((k - 1) \div Len(symbols)) + 1],
              symbols_dot[((k - 1) % Len(symbols)) + 1])]

\* the list v of total_derivative2: for i, for j, symbols_ddot[i] when i = j
\* and symbols_dot[i] * symbols_dot[j] otherwise
VelocityTerms(symbols, symbols_dot, symbols_ddot) ==
    [k \in 1..(Len(symbols) * Len(symbols)) |->
        IF (k - 1) \div Len(symbols) = (k - 1) % Len(symbols)
        THEN symbols_ddot[((k - 1) \div Len(symbols)) + 1]
        ELSE SXmul(symbols_dot[((k - 1) \div Len(symbols)) + 1],
                   symbols_dot[((k - 1) % Len(symbols)) + 1])]

\* total_derivative2(expr, symbols, symbols_dot, symbols_ddot), the three
\* lists being sequences of symbols of one length
total_derivative2(expr, symbols, symbols_dot, symbols_ddot) ==
    Expression__dot(
        Plain("Expression",
              SXreshape(ca_hessian(Entry(expr), Col(symbols)), 1,
                        Len(symbols) * Len(symbols))),
        Expression(Plain("list", Col(VelocityTerms(symbols, symbols_dot, symbols_ddot)))))

---------------------------------------------------------------------------
(* The Symbol registry *)

HashValues == 0..(2 ^ HashBits - 1)

\* A Symbol instance: its identity and its name; NoSymbol when no handle is held
SymbolInstance(id, name) == [id |-> id, name |-> name]
NoSymbol == SymbolInstance(0, "")

\* Symbol.__new__ without the registry lookup
Symbol__new__NoLookup(reg, count, name) ==
    [registry |-> [reg EXCEPT ![name] = count + 1],
     instances |-> count + 1,
     instance |-> SymbolInstance(count + 1, name)]

\* Symbol.__new__(cls, name): the registry, the instance count and the instance
\* returned
Symbol__new__(reg, count, name) ==
    IF reg[name] # 0
    THEN [registry |-> reg, instances |-> count, instance |-> SymbolInstance(reg[name], name)]
    ELSE [registry |-> [reg EXCEPT ![name] = count + 1],
          instances |-> count + 1,
          instance |-> SymbolInstance(count + 1, name)]

\* Symbol.__hash__: hash(self.name)
Symbol__hash__(self) == strhash[self.name]

\* Symbol.__eq__
Symbol__eq__(self, other) == Symbol__hash__(self) = Symbol__hash__(other)

\* Symbol.__ne__
Symbol__ne__(self, other) == Symbol__hash__(self) # Symbol__hash__(other)

NoCmp == [done |-> FALSE, eq |-> FALSE, ne |-> FALSE, hashA |-> 0, hashB |-> 0]

\* a = Symbol(name)
RequestA(name) ==
    LET r == Symbol__new__(registry, instances, name)
    IN /\ registry' = r.registry
       /\ instances' = r.instances
       /\ requested' = requested \cup {name}
       /\ symA' = r.instance
       /\ cmp' = NoCmp
       /\ UNCHANGED <<strhash, symB, lhs, rhs, res, cfvars, memvars>>

\* b = Symbol(name)
RequestB(name) ==
    LET r == Symbol__new__(registry, instances, name)
    IN /\ registry' = r.registry
       /\ instances' = r.instances
       /\ requested' = requested \cup {name}
       /\ symB' = r.instance
       /\ cmp' = NoCmp
       /\ UNCHANGED <<strhash, symA, lhs, rhs, res, cfvars, memvars>>

\* a == b, a != b, hash(a), hash(b)
Compare ==
    /\ symA # NoSymbol
    /\ symB # NoSymbol
    /\ cmp' = [done |-> TRUE,
               eq |-> Symbol__eq__(symA, symB),
               ne |-> Symbol__ne__(symA, symB),
               hashA |-> Symbol__hash__(symA),
               hashB |-> Symbol__hash__(symB)]
    /\ UNCHANGED <<registry, instances, strhash, requested, symA, symB, lhs, rhs, res, cfvars, memvars>>

NoRes == [op |-> "", args |-> <<>>, exc |-> "none", out |-> NoneObj]

\* The state after import: an empty registry, and some str hash for this process
InitSym ==
    /\ registry = [n \in Names |-> 0]
    /\ instances = 0
    /\ strhash \in [Names -> HashValues]
    /\ requested = {}
    /\ symA = NoSymbol
    /\ symB = NoSymbol
    /\ cmp = NoCmp
    /\ lhs = NoneObj
    /\ rhs = NoneObj
    /\ res = NoRes
    /\ NoProgram
    /\ NoMemory

NextSym ==
    \/ \E name \in Names : RequestA(name)
    \/ \E name \in Names : RequestB(name)
    \/ Compare

SpecSym == InitSym /\ [][NextSym]_vars

---------------------------------------------------------------------------
(* Inputs of the geometry state machine *)

Consts == 0..MaxConst
Dims == 3..MaxDim

\* A 4x4 nested list: a quarter turn about z, a translation, and a bottom row
\* that is not (0, 0, 0, 1)
M44 ==
    << <<Zero, C(0 - 1), Zero, One>>,
       <<One, Zero, Zero, C(MaxConst)>>,
       <<Zero, Zero, One, Zero>>,
       <<C(MaxConst), One, Zero, C(MaxConst)>> >>

\* An r-by-c nested list cut out of, or padded around, M44
MatrixData(r, c) ==
    Plain("nested", [i \in 1..r |-> [j \in 1..c |->
                        IF i <= 4 /\ j <= 4 THEN M44[i][j] ELSE C(MaxConst)]])

\* The constructor calls the caller makes: <<data, reference_frame, child_frame>>
MatrixInputs ==
    {<<NoneObj, None, None>>}
        \cup {<<MatrixData(r, 4), "A", "B">> : r \in Dims}
        \cup {<<MatrixData(4, c), None, None>> : c \in Dims}
\* <<data, reference_frame>>
PointInputs == {<<NoneObj, None>>,
                <<Plain("list", Col(<<SXsym("a"), C(MaxConst), Zero>>)), "A">>}
VectorInputs == {<<Plain("list", Col(<<One, Zero, Zero>>)), None>>,
                 <<Plain("list", Col(<<Zero, C(MaxConst), Zero>>)), "A">>}
QuaternionInputs == {<<NoneObj, "A">>,
                     <<Plain("list", Col(<<Zero, Zero, One, Zero>>)), None>>}
ExpressionInputs == {Float(MaxConst),
                     Plain("list", Col(<<SXsym("b"), One, Zero, C(MaxConst)>>))}
Conditions == {Float(0), Float(1), Plain("Symbol", Scalar(SXsym("b")))}
\* the in-place writes the caller makes: self[3] = MaxConst
WriteIndices == {3}
WriteValues == {C(MaxConst)}

IsScalarValue(x) == x.cls \in {"float", "Symbol", "Expression"} /\ IsScalar(x.s)
ConstantEntries(x) == \A i \in 1..Rows(x.s) : \A j \in 1..Cols(x.s) : IsC(x.s[i][j])

---------------------------------------------------------------------------
(* The geometry state machine: the caller builds operands and calls the      *)
(* library on them.  res records the last call.                              *)

Result(op, args, r) == [op |-> op, args |-> args, exc |-> r.exc, out |-> r.out]

\* x = f(...): the caller's left operand after the call r
Kept(r) == IF r.exc = "none" THEN r.out ELSE lhs

\* lhs = c
NewFloat(c) ==
    /\ res' = Result("float", <<Float(c)>>, Return(Float(c)))
    /\ lhs' = Kept(res')
    /\ UNCHANGED <<rhs, symvars, cfvars, memvars>>

\* lhs = Symbol(name)
NewSymbol(name) ==
    LET r == Symbol__new__(registry, instances, name)
    IN /\ registry' = r.registry
       /\ instances' = r.instances
       /\ requested' = requested \cup {name}
       /\ lhs' = Plain("Symbol", Scalar(SXsym(r.instance.name)))
       /\ res' = Result("Symbol", <<NoneObj>>, Return(lhs'))
       /\ UNCHANGED <<rhs, strhash, symA, symB, cmp, cfvars, memvars>>

\* lhs = Expression(data)
NewExpression(data) ==
    /\ res' = Result("Expression", <<data>>, Return(Expression(data)))
    /\ lhs' = Kept(res')
    /\ UNCHANGED <<rhs, symvars, cfvars, memvars>>

\* lhs = Point3(data, reference_frame=frame)
NewPoint3(data, frame) ==
    /\ res' = Result("Point3", <<data>>, Point3__init__(data, frame))
    /\ lhs' = Kept(res')
    /\ UNCHANGED <<rhs, symvars, cfvars, memvars>>

\* lhs = Vector3(data, reference_frame=frame)
NewVector3(data, frame) ==
    /\ res' = Result("Vector3", <<data>>, Vector3__init__(data, frame))
    /\ lhs' = Kept(res')
    /\ UNCHANGED <<rhs, symvars, cfvars, memvars>>

\* lhs = Quaternion(data, reference_frame=frame)
NewQuaternion(data, frame) ==
    /\ res' = Result("Quaternion", <<data>>, Quaternion__init__(data, frame))
    /\ lhs' = Kept(res')
    /\ UNCHANGED <<rhs, symvars, cfvars, memvars>>

\* lhs = RotationMatrix(data, reference_frame=frame)
NewRotationMatrix(data, frame) ==
    /\ res' = Result("RotationMatrix", <<data>>,
                     RotationMatrix__init__(data, frame, None, TRUE))
    /\ lhs' = Kept(res')
    /\ UNCHANGED <<rhs, symvars, cfvars, memvars>>

\* lhs = TransformationMatrix(data, reference_frame=frame, child_frame=child)
NewTransformationMatrix(data, frame, child) ==
    /\ res' = Result("TransformationMatrix", <<data>>,
                     TransformationMatrix__init__(data, frame, child, TRUE))
    /\ lhs' = Kept(res')
    /\ UNCHANGED <<rhs, symvars, cfvars, memvars>>

\* lhs, rhs = rhs, lhs
Swap ==
    /\ lhs # rhs
    /\ lhs' = rhs
    /\ rhs' = lhs
    /\ res' = Result("swap", <<lhs, rhs>>, Return(NoneObj))
    /\ UNCHANGED <<symvars, cfvars, memvars>>

\* lhs[k] = v  (Symbol_.__setitem__)
SetItem(k, v) ==
    /\ lhs.cls \in {"Point3", "Vector3"}
    /\ lhs' = [lhs EXCEPT !.s = Set1(lhs.s, k, v)]
    /\ res' = Result("__setitem__", <<lhs>>, Return(NoneObj))
    /\ UNCHANGED <<rhs, symvars, cfvars, memvars>>

\* lhs + rhs, lhs - rhs, lhs * rhs, lhs / rhs, lhs ** rhs with at least one
\* operand of the library (two plain numbers never reach it)
Arith(op) ==
    /\ IsSymbol_(lhs) \/ IsSymbol_(rhs)
    /\ res' = Result(op, <<lhs, rhs>>, BinaryOp(op, lhs, rhs))
    /\ UNCHANGED <<lhs, rhs, symvars, cfvars, memvars>>

\* -lhs
Neg ==
    /\ lhs.cls \in {"Point3", "Vector3", "Quaternion"}
    /\ res' = Result("neg", <<lhs>>,
                     CASE lhs.cls = "Point3" -> Point3__neg__(lhs)
                       [] lhs.cls = "Vector3" -> Vector3__neg__(lhs)
                       [] lhs.cls = "Quaternion" -> Quaternion__neg__(lhs))
    /\ UNCHANGED <<lhs, rhs, symvars, cfvars, memvars>>

\* lhs.dot(rhs)
DotMethod ==
    /\ IsSymbol_(lhs)
    /\ rhs.cls # "NoneType"
    /\ res' = Result("x.dot", <<lhs, rhs>>, MethodDot(lhs, rhs))
    /\ UNCHANGED <<lhs, rhs, symvars, cfvars, memvars>>

\* dot(lhs, rhs)
DotFunction ==
    /\ IsSymbol_(lhs)
    /\ rhs.cls # "NoneType"
    /\ res' = Result("dot", <<lhs, rhs>>, dot(lhs, rhs))
    /\ UNCHANGED <<lhs, rhs, symvars, cfvars, memvars>>

\* lhs.cross(rhs)
CrossMethod ==
    /\ lhs.cls = "Vector3"
    /\ rhs.cls \in {"Point3", "Vector3"}
    /\ res' = Result("x.cross", <<lhs, rhs>>, Vector3__cross(lhs, rhs))
    /\ UNCHANGED <<lhs, rhs, symvars, cfvars, memvars>>

\* cross(lhs, rhs)
CrossFunction ==
    /\ lhs.cls \in {"Point3", "Vector3"}
    /\ rhs.cls \in {"Point3", "Vector3"}
    /\ res' = Result("cross", <<lhs, rhs>>, cross(lhs, rhs))
    /\ UNCHANGED <<lhs, rhs, symvars, cfvars, memvars>>

\* lhs.scale(rhs): replaces lhs.s and returns None
ScaleMethod ==
    /\ lhs.cls = "Vector3"
    /\ ConstantEntries(lhs)
    /\ rhs.cls = "float"
    /\ \E r \in {Vector3__scale(lhs, rhs)} :
          /\ lhs' = Kept(r)
          /\ res' = Result("x.scale", <<lhs, rhs>>, Then(r, LAMBDA self : Return(NoneObj)))
    /\ UNCHANGED <<rhs, symvars, cfvars, memvars>>

\* scale(lhs, rhs)
ScaleFunction ==
    /\ lhs.cls = "Vector3"
    /\ IsScalarValue(rhs)
    /\ res' = Result("scale", <<lhs, rhs>>, scale(lhs, rhs))
    /\ UNCHANGED <<lhs, rhs, symvars, cfvars, memvars>>

\* if_else(condition, lhs, rhs)
IfElse(condition) ==
    /\ lhs.cls # "NoneType"
    /\ rhs.cls # "NoneType"
    /\ res' = Result("if_else", <<lhs, rhs, condition>>, if_else(condition, lhs, rhs))
    /\ UNCHANGED <<lhs, rhs, symvars, cfvars, memvars>>

\* lhs.multiply(rhs)
QuaternionMultiply ==
    /\ lhs.cls = "Quaternion"
    /\ rhs.cls = "Quaternion"
    /\ res' = Result("Quaternion.multiply", <<lhs, rhs>>, Quaternion__multiply(lhs, rhs))
    /\ UNCHANGED <<lhs, rhs, symvars, cfvars, memvars>>

\* lhs.diff(rhs)
QuaternionDiff ==
    /\ lhs.cls = "Quaternion"
    /\ rhs.cls = "Quaternion"
    /\ res' = Result("Quaternion.diff", <<lhs, rhs>>, Quaternion__diff(lhs, rhs))
    /\ UNCHANGED <<lhs, rhs, symvars, cfvars, memvars>>

\* lhs.T
Transpose ==
    /\ lhs.cls = "RotationMatrix"
    /\ res' = Result("RotationMatrix.T", <<lhs>>, RotationMatrix__T(lhs))
    /\ UNCHANGED <<lhs, rhs, symvars, cfvars, memvars>>

\* lhs.inverse()
Inverse ==
    /\ lhs.cls = "RotationMatrix"
    /\ res' = Result("RotationMatrix.inverse", <<lhs>>, RotationMatrix__inverse(lhs))
    /\ UNCHANGED <<lhs, rhs, symvars, cfvars, memvars>>

\* lhs.to_rotation()
ToRotation ==
    /\ lhs.cls = "TransformationMatrix"
    /\ res' = Result("to_rotation", <<lhs>>, TransformationMatrix__to_rotation(lhs))
    /\ UNCHANGED <<lhs, rhs, symvars, cfvars, memvars>>

\* RotationMatrix.from_axis_angle(lhs, rhs, frame)
FromAxisAngle(frame) ==
    /\ lhs.cls = "Vector3"
    /\ IsScalarValue(rhs)
    /\ res' = Result("from_axis_angle", <<lhs, rhs>>,
                     RotationMatrix__from_axis_angle(lhs, rhs, frame))
    /\ UNCHANGED <<lhs, rhs, symvars, cfvars, memvars>>

\* RotationMatrix.from_rpy(lhs, rhs, yaw, frame)
FromRpy(yaw, frame) ==
    /\ IsScalarValue(lhs)
    /\ IsScalarValue(rhs)
    /\ res' = Result("from_rpy", <<lhs, rhs, yaw>>,
                     RotationMatrix__from_rpy(lhs, rhs, yaw, frame))
    /\ UNCHANGED <<lhs, rhs, symvars, cfvars, memvars>>

\* RotationMatrix.from_quaternion(lhs)
FromQuaternion ==
    /\ lhs.cls = "Quaternion"
    /\ res' = Result("from_quaternion", <<lhs>>, RotationMatrix__from_quaternion(lhs))
    /\ UNCHANGED <<lhs, rhs, symvars, cfvars, memvars>>

\* The arguments x, y, z of from_vectors when two of them are given
GivenVectors(given, u, v) ==
    <<IF given \in {"xy", "xz"} THEN u ELSE NoneObj,
      IF given = "xy" THEN v ELSE IF given = "yz" THEN u ELSE NoneObj,
      IF given \in {"xz", "yz"} THEN v ELSE NoneObj>>

\* RotationMatrix.from_vectors with two of x, y, z given as lhs and rhs: the
\* vectors handed in are scaled in place
FromVectors(given, frame) ==
    /\ lhs.cls = "Vector3"
    /\ rhs.cls = "Vector3"
    /\ ConstantEntries(lhs)
    /\ ConstantEntries(rhs)
    /\ \E xyz \in {GivenVectors(given, lhs, rhs)} :
          res' = Result("from_vectors", xyz,
                        RotationMatrix__from_vectors(xyz[1], xyz[2], xyz[3], frame))
    /\ lhs' = ScaledOrNone(lhs)
    /\ rhs' = ScaledOrNone(rhs)
    /\ UNCHANGED <<symvars, cfvars, memvars>>

\* The registry after Symbol("a"), Symbol("b")
InitialRegistry ==
    Symbol__new__(Symbol__new__([n \in Names |-> 0], 0, "a").registry, 1, "b").registry

\* The state after a program has requested every name once and holds no operand
Init ==
    /\ registry = InitialRegistry
    /\ instances = Cardinality(Names)
    /\ strhash = [n \in Names |-> 0]
    /\ requested = Names
    /\ symA = NoSymbol
    /\ symB = NoSymbol
    /\ cmp = NoCmp
    /\ lhs = NoneObj
    /\ rhs = NoneObj
    /\ res = NoRes
    /\ NoProgram
    /\ NoMemory

Next ==
    \/ \E c \in Consts : NewFloat(c)
    \/ \E name \in Names : NewSymbol(name)
    \/ \E data \in ExpressionInputs : NewExpression(data)
    \/ \E in \in PointInputs : NewPoint3(in[1], in[2])
    \/ \E in \in VectorInputs : NewVector3(in[1], in[2])
    \/ \E in \in QuaternionInputs : NewQuaternion(in[1], in[2])
    \/ \E in \in MatrixInputs : NewRotationMatrix(in[1], in[2])
    \/ \E in \in MatrixInputs : NewTransformationMatrix(in[1], in[2], in[3])
    \/ Swap
    \/ \E k \in WriteIndices, v \in WriteValues : SetItem(k, v)
    \/ \E op \in ArithOps : Arith(op)
    \/ Neg
    \/ DotMethod
    \/ DotFunction
    \/ CrossMethod
    \/ CrossFunction
    \/ ScaleMethod
    \/ ScaleFunction
    \/ \E condition \in Conditions : IfElse(condition)
    \/ QuaternionMultiply
    \/ QuaternionDiff
    \/ Transpose
    \/ Inverse
    \/ ToRotation
    \/ \E frame \in Frames : FromAxisAngle(frame)
    \/ \E yaw \in {Float(0), Float(MaxConst)}, frame \in Frames : FromRpy(yaw, frame)
    \/ FromQuaternion
    \/ \E given \in {"xy", "xz", "yz"}, frame \in Frames : FromVectors(given, frame)

Spec == Init /\ [][Next]_vars

---------------------------------------------------------------------------
(* The compiled-function state machine: the caller holds one function,       *)
(* compiled from an expression over the symbols a and b, and calls it.       *)

SymA == SXsym("a")
SymB == SXsym("b")

\* The expressions compiled: a 2x2 matrix with a structural zero, a column, a
\* constant column with a zero entry, and the empty expression
X22 == << <<SymA, SymB>>, <<SXsub(SymA, SymB), Zero>> >>
X21 == << <<SXsub(SymA, SymB)>>, <<SXmul(SymA, SymB)>> >>
K31 == << <<One>>, <<Zero>>, <<C(MaxConst)>> >>
Empty == <<>>

\* The declarations of the parameters a and b
Declarations ==
    {NoParameters, FlatParameters(<<"b", "a">>), NestedParameters(<< <<"b", "a">> >>),
     NestedParameters(<< <<"a">>, <<"b">> >>)}

\* expression.compile(parameters, sparse)
CompileInputs ==
    {[expression |-> e, parameters |-> p, sparse |-> s] :
        e \in {X22, X21}, p \in Declarations, s \in BOOLEAN}
    \cup {[expression |-> e, parameters |-> NoParameters, sparse |-> s] :
        e \in {K31, Empty}, s \in BOOLEAN}

\* StackedCompiledFunction(expressions, parameters, additional_views)
StackedInputs ==
    {[expressions |-> es, parameters |-> p, additional_views |-> v] :
        es \in {<<X21>>, <<X21, <<<<SymB>>>> >>, << <<<<SymA>>>>, X21, <<<<One>>>> >>,
                <<X22, << <<SymB, One>> >> >>},
        p \in {NoParameters, NestedParameters(<< <<"a">>, <<"b">> >>)},
        v \in {<<>>, << <<1, 2>>, <<0, 1>> >>}}
    \cup {[expressions |-> <<K31, <<<<One>>>> >>, parameters |-> NoParameters,
           additional_views |-> <<>>]}

\* The numbers passed as parameter values
CFValues == {QInt(0), QInt(1), QInt(MaxConst)}
\* np.array of n values
Arrays(n) == [1..n -> CFValues]

\* One array per declared group, each of the group's length
GroupArrays(self) ==
    {args \in [1..Len(self.symbol_parameters) -> Arrays(1) \cup Arrays(Cardinality(Names))] :
        \A g \in 1..Len(args) : Len(args[g]) = Len(self.symbol_parameters[g])}

\* What the memory of the arrays of earlier calls may hold when a keyword call
\* reads it: anything, for a function with a slot beyond the first that was set
StaleArrays(self) ==
    IF \E g \in 2..Len(self.argset) : self.argset[g] THEN GroupArrays(self)
    ELSE {[g \in 1..Len(self.symbol_parameters) |->
              [j \in 1..Len(self.symbol_parameters[g]) |-> QInt(0)]]}

\* The arguments of a positional call: one array per group; anything for a
\* function without parameters
PositionalArgs(self) ==
    IF Len(self.symbol_parameters) = 0 THEN {<<>>, << <<QInt(1)>> >>}
    ELSE GroupArrays(self)

\* The keywords of a keyword call, in the order written: every parameter once
KeywordArgs(self) ==
    LET params == Flatten(self.symbol_parameters)
    IN IF Len(params) = 0 THEN {<<>>, << <<"a", QInt(1)>> >>}
       ELSE {kw \in [1..Len(params) -> Names \X CFValues] :
                \A k \in 1..Len(params) : \E i \in 1..Len(kw) : kw[i][1] = params[k]}

IsStacked(self) == Len(self.split_out_view) > 0

\* the arrays fast_call would be given for the keywords: for each group in
\* declared order, the group's values in declared order
ArraysOf(self, kwargs) ==
    [g \in 1..Len(self.symbol_parameters) |->
        [j \in 1..Len(self.symbol_parameters[g]) |->
            Lookup(kwargs, self.symbol_parameters[g][j])]]

\* compiled_f.fast_call(*args)
FastCall(args) ==
    /\ compiled_f.compiled
    /\ compiled_f.runs < MaxRuns
    /\ ~IsStacked(compiled_f)
    /\ LET r == fast_call(compiled_f, args, <<>>)
       IN /\ compiled_f' = r[1]
          /\ call' = [kind |-> "fast_call", args |-> args, kwargs |-> <<>>, ret |-> r[2],
                      value |-> Deref(r[1], r[2])]
    /\ UNCHANGED <<kept, app, geovars, symvars, memvars>>

\* compiled_f(**kwargs); stale is what the memory of arrays passed earlier holds
KeywordCall(kwargs, stale) ==
    /\ compiled_f.compiled
    /\ compiled_f.runs < MaxRuns
    /\ ~IsStacked(compiled_f)
    /\ LET r == CompiledFunction__call__(compiled_f, kwargs, stale)
       IN /\ compiled_f' = r[1]
          /\ call' = [kind |-> "__call__", args |-> <<>>, kwargs |-> kwargs, ret |-> r[2],
                      value |-> Deref(r[1], r[2])]
    /\ UNCHANGED <<kept, app, geovars, symvars, memvars>>

\* kept = the array the last call returned; seen is what it held then
Keep ==
    /\ call.kind \in {"fast_call", "__call__"}
    /\ kept' = [ref |-> call.ret, seen |-> call.value]
    /\ UNCHANGED <<compiled_f, call, app, geovars, symvars, memvars>>

\* compiled_f.fast_call(*args) of a StackedCompiledFunction
StackedFastCall(args) ==
    /\ compiled_f.compiled
    /\ compiled_f.runs < MaxRuns
    /\ compiled_f.runs < MaxRuns
    /\ IsStacked(compiled_f)
    /\ LET r == Stacked__fast_call(compiled_f, args)
       IN /\ compiled_f' = r[1]
          /\ call' = [kind |-> "stacked", args |-> args, kwargs |-> <<>>, ret |-> OutBuffer,
                      value |-> [i \in 1..Len(r[2]) |-> View(r[1].out, r[2][i])]]
    /\ UNCHANGED <<kept, app, geovars, symvars, memvars>>

\* The functions the caller may hold
Compiled ==
    {CompiledFunction__init__(in.expression, in.parameters, in.sparse) : in \in CompileInputs}
Stacked ==
    {StackedCompiledFunction__init__(in.expressions, in.parameters, in.additional_views) :
        in \in StackedInputs}

\* The state after the function has been constructed
InitCF ==
    /\ NoMemory
    /\ compiled_f \in Compiled \cup Stacked
    /\ call = NoCall
    /\ kept = NoKept
    /\ app = NoApp
    /\ registry = InitialRegistry
    /\ instances = Cardinality(Names)
    /\ strhash = [n \in Names |-> 0]
    /\ requested = Names
    /\ symA = NoSymbol
    /\ symB = NoSymbol
    /\ cmp = NoCmp
    /\ lhs = NoneObj
    /\ rhs = NoneObj
    /\ res = NoRes

NextCF ==
    \/ \E args \in PositionalArgs(compiled_f) : FastCall(args)
    \/ \E kwargs \in KeywordArgs(compiled_f), stale \in StaleArrays(compiled_f) :
           KeywordCall(kwargs, stale)
    \/ Keep
    \/ \E args \in PositionalArgs(compiled_f) : StackedFastCall(args)

SpecCF == InitCF /\ [][NextCF]_vars

---------------------------------------------------------------------------
(* The helper state machine: the caller applies a logic or conditional       *)
(* helper; app records the application.  The helpers are functions of their  *)
(* arguments alone, so a behaviour is one application.                       *)

SymbolA == Plain("Symbol", Scalar(SymA))
SymbolB == Plain("Symbol", Scalar(SymB))

\* The arguments of the three-valued operations
TrinaryInputs == {TrinaryTrue, TrinaryFalse, TrinaryUnknown, SymbolA, SymbolB}
\* The arguments of logic_and and logic_or
BinaryInputs == {BinaryTrue, BinaryFalse, SymbolA, SymbolB, Expression(SX(SXlt(SymA, SymB)))}
ArgumentLists == UNION {[1..n -> BinaryInputs] : n \in 2..MaxArgs}

\* Boolean expressions built from symbols (and one comparison) with logic_and,
\* logic_or and logic_not, up to three levels deep
Leaves == {SymbolA, SymbolB, Expression(SX(SXlt(SymA, SymB)))}
Shallow ==
    Leaves \cup {logic_not(x) : x \in Leaves}
           \cup {logic_and(<<x, y>>) : x, y \in Leaves}
           \cup {logic_or(<<x, y>>) : x, y \in Leaves}
Trees ==
    Shallow \cup {logic_not(x) : x \in Shallow}
            \cup {logic_and(<<x, y>>) : x \in Leaves, y \in Shallow}
            \cup {logic_or(<<y, x>>) : x \in Leaves, y \in Shallow}
            \cup {logic_and(<<SymbolA, logic_or(<<y, SymbolB>>)>>) : y \in Shallow}

\* The numbers and symbols compared by the ordering helpers, and the two results
Compared == {Float(n) : n \in (0 - 1)..MaxConst} \cup {SymbolA, SymbolB}
IfResult == Float(1)
ElseResult == Float(MaxConst)
Helpers == {"if_greater", "if_greater_eq", "if_less", "if_less_eq", "if_eq",
            "if_greater_zero", "if_greater_eq_zero", "if_eq_zero"}
ZeroHelpers == {"if_greater_zero", "if_greater_eq_zero", "if_eq_zero"}

\* helper(a, b, if_result, else_result), or helper(a, if_result, else_result)
Helper(name, a, b, if_result, else_result) ==
    CASE name = "if_greater" -> if_greater(a, b, if_result, else_result)
      [] name = "if_greater_eq" -> if_greater_eq(a, b, if_result, else_result)
      [] name = "if_less" -> if_less(a, b, if_result, else_result)
      [] name = "if_less_eq" -> if_less_eq(a, b, if_result, else_result)
      [] name = "if_eq" -> if_eq(a, b, if_result, else_result)
      [] name = "if_greater_zero" -> if_greater_zero(a, if_result, else_result)
      [] name = "if_greater_eq_zero" -> if_greater_eq_zero(a, if_result, else_result)
      [] name = "if_eq_zero" -> if_eq_zero(a, if_result, else_result)

\* logic_and3(a, b)
And3(a, b) ==
    /\ app = NoApp
    /\ app' = [f |-> "logic_and3", args |-> <<a, b>>, out |-> logic_and3(<<a, b>>)]
    /\ UNCHANGED <<compiled_f, call, kept, geovars, symvars, memvars>>

\* logic_or3(a, b)
Or3(a, b) ==
    /\ app = NoApp
    /\ app' = [f |-> "logic_or3", args |-> <<a, b>>, out |-> logic_or3(a, b)]
    /\ UNCHANGED <<compiled_f, call, kept, geovars, symvars, memvars>>

\* logic_not3(a)
Not3(a) ==
    /\ app = NoApp
    /\ app' = [f |-> "logic_not3", args |-> <<a>>, out |-> logic_not3(a)]
    /\ UNCHANGED <<compiled_f, call, kept, geovars, symvars, memvars>>

\* replace_with_three_logic(expr)
ReplaceWithThreeLogic(expr) ==
    /\ app = NoApp
    /\ app' = [f |-> "replace_with_three_logic", args |-> <<expr>>,
               out |-> replace_with_three_logic(expr)]
    /\ UNCHANGED <<compiled_f, call, kept, geovars, symvars, memvars>>

\* logic_and(*args)
LogicAnd(args) ==
    /\ app = NoApp
    /\ app' = [f |-> "logic_and", args |-> args, out |-> logic_and(args)]
    /\ UNCHANGED <<compiled_f, call, kept, geovars, symvars, memvars>>

\* logic_or(*args)
LogicOr(args) ==
    /\ app = NoApp
    /\ app' = [f |-> "logic_or", args |-> args, out |-> logic_or(args)]
    /\ UNCHANGED <<compiled_f, call, kept, geovars, symvars, memvars>>

\* if_greater(a, b, 1, MaxConst) and the other ordering helpers
Select(name, a, b) ==
    /\ app = NoApp
    /\ name \in ZeroHelpers => b = Float(0)
    /\ LET r == Helper(name, a, b, IfResult, ElseResult)
       IN /\ r.exc = "none"
          /\ app' = [f |-> name, args |-> <<a, b>>, out |-> r.out]
    /\ UNCHANGED <<compiled_f, call, kept, geovars, symvars, memvars>>

\* The case lists of the multi-way helpers: up to MaxCases pairs (key, result);
\* the default result differs from every case's result
CaseKeys == {Float(n) : n \in 0..MaxConst}
CaseResults == {Float(1), Float(MaxConst)}
CaseLists == UNION {[1..n -> {<<k, r>> : k \in CaseKeys, r \in CaseResults}] : n \in 0..MaxCases}
CaseElse == Float(0)

\* if_eq_cases(a, cases, 0)
IfEqCases(b_result_cases) ==
    /\ app = NoApp
    /\ app' = [f |-> "if_eq_cases", args |-> <<SymbolA, b_result_cases, CaseElse>>,
               out |-> if_eq_cases(SymbolA, b_result_cases, CaseElse)]
    /\ UNCHANGED <<compiled_f, call, kept, geovars, symvars, memvars>>

\* if_eq_cases_grouped(a, cases, 0)
IfEqCasesGrouped(b_result_cases) ==
    /\ app = NoApp
    /\ app' = [f |-> "if_eq_cases_grouped", args |-> <<SymbolA, b_result_cases, CaseElse>>,
               out |-> if_eq_cases_grouped(SymbolA, b_result_cases, CaseElse)]
    /\ UNCHANGED <<compiled_f, call, kept, geovars, symvars, memvars>>

\* if_less_eq_cases(a, cases, 0)
IfLessEqCases(b_result_cases) ==
    /\ app = NoApp
    /\ app' = [f |-> "if_less_eq_cases", args |-> <<SymbolA, b_result_cases, CaseElse>>,
               out |-> if_less_eq_cases(SymbolA, b_result_cases, CaseElse)]
    /\ UNCHANGED <<compiled_f, call, kept, geovars, symvars, memvars>>

\* The symbols of total_derivative2 and their first and second derivatives
DotName == [a |-> "ad", b |-> "bd"]
DDotName == [a |-> "add", b |-> "bdd"]
SymbolLists == {<<"a">>, <<"b">>, <<"a", "b">>, <<"b", "a">>}
\* The expressions differentiated: a*b*b, a*a + a*b, a*a*b - b*b, MaxConst*a*a
Differentiated ==
    {SXmul(SymA, SXmul(SymB, SymB)),
     SXadd(SXmul(SymA, SymA), SXmul(SymA, SymB)),
     SXsub(SXmul(SXmul(SymA, SymA), SymB), SXmul(SymB, SymB)),
     SXmul(C(MaxConst), SXmul(SymA, SymA))}

\* total_derivative2(expr, symbols, symbols_dot, symbols_ddot)
TotalDerivative2(expr, names) ==
    /\ app = NoApp
    /\ LET symbols == [i \in 1..Len(names) |-> SXsym(names[i])]
           symbols_dot == [i \in 1..Len(names) |-> SXsym(DotName[names[i]])]
           symbols_ddot == [i \in 1..Len(names) |-> SXsym(DDotName[names[i]])]
       IN app' = [f |-> "total_derivative2",
                  args |-> <<expr, symbols, symbols_dot, symbols_ddot>>,
                  out |-> total_derivative2(Expression(SX(expr)), symbols, symbols_dot,
                                            symbols_ddot).out]
    /\ UNCHANGED <<compiled_f, call, kept, geovars, symvars, memvars>>

\* The state before any helper has been applied
InitLogic ==
    /\ NoProgram
    /\ NoMemory
    /\ registry = InitialRegistry
    /\ instances = Cardinality(Names)
    /\ strhash = [n \in Names |-> 0]
    /\ requested = Names
    /\ symA = NoSymbol
    /\ symB = NoSymbol
    /\ cmp = NoCmp
    /\ lhs = NoneObj
    /\ rhs = NoneObj
    /\ res = NoRes

NextLogic ==
    \/ \E a, b \in TrinaryInputs : And3(a, b)
    \/ \E a, b \in TrinaryInputs : Or3(a, b)
    \/ \E a \in TrinaryInputs : Not3(a)
    \/ \E expr \in Trees : ReplaceWithThreeLogic(expr)
    \/ \E args \in ArgumentLists : LogicAnd(args)
    \/ \E args \in ArgumentLists : LogicOr(args)
    \/ \E name \in Helpers, a, b \in Compared : Select(name, a, b)
    \/ \E b_result_cases \in CaseLists : IfEqCases(b_result_cases)
    \/ \E b_result_cases \in CaseLists : IfEqCasesGrouped(b_result_cases)
    \/ \E b_result_cases \in CaseLists : IfLessEqCases(b_result_cases)
    \/ \E expr \in Differentiated, names \in SymbolLists : TotalDerivative2(expr, names)

SpecLogic == InitLogic /\ [][NextLogic]_vars

---------------------------------------------------------------------------
(* The matrix state machine: the caller holds up to MaxObjects geometric     *)
(* objects, builds new ones from them, writes entries of them in place and   *)
(* reads them.                                                               *)

\* 3/5 and 4/5
ThreeFifths == <<"div", C(3), C(5)>>
FourFifths == <<"div", C(4), C(5)>>

\* Orthonormal 3x3 blocks: the identity, a quarter turn about z, and the
\* rotation about x with cosine 3/5 and sine 4/5
Rotations ==
    { << <<One, Zero, Zero>>, <<Zero, One, Zero>>, <<Zero, Zero, One>> >>,
      << <<Zero, C(0 - 1), Zero>>, <<One, Zero, Zero>>, <<Zero, Zero, One>> >>,
      << <<One, Zero, Zero>>, <<Zero, ThreeFifths, SXneg(FourFifths)>>,
         <<Zero, FourFifths, ThreeFifths>> >> }
\* Translations
Translations == { <<One, C(MaxConst), Zero>>, <<SXsym("a"), ThreeFifths, SXsym("b")>> }

\* The 4x4 matrix of a rotation block and a translation
Homogeneous(rotation, translation) ==
    [i \in 1..4 |-> [j \in 1..4 |->
        IF i <= 3 /\ j <= 3 THEN rotation[i][j]
        ELSE IF i <= 3 THEN translation[i]
        ELSE IF j <= 3 THEN Zero ELSE One]]

\* The point handed to from_point_rotation_matrix
ThePoint == Point3__init__(Plain("list", Col(<<C(MaxConst), One, C(MaxConst)>>)), "A").out

\* Unit quaternions (x, y, z, w) with components n/d: the eight with one
\* component 1 or -1, and some with two, three or four components not zero, of
\* either sign, among them one for each largest component
Fraction(n, d) == QTerm(Q(n, d))
UnitQuaternions ==
    {[i \in 1..4 |-> C(IF i = k THEN sign ELSE 0)] : k \in 1..4, sign \in {0 - 1, 1}}
    \cup {[i \in 1..4 |-> Fraction(v[1][i], v[2])] :
             v \in {<<<<1, 1, 1, 1>>, 2>>, <<<<1, 0 - 1, 1, 0 - 1>>, 2>>,
                    <<<<0, 0, 3, 4>>, 5>>, <<<<0, 0 - 3, 0, 4>>, 5>>,
                    <<<<3, 0, 0, 0 - 4>>, 5>>, <<<<4, 0, 3, 0>>, 5>>,
                    <<<<2, 6, 3, 0>>, 7>>, <<<<0 - 2, 3, 6, 0>>, 7>>,
                    <<<<6, 0 - 2, 0, 3>>, 7>>, <<<<1, 2, 4, 2>>, 5>>,
                    <<<<0 - 2, 4, 1, 2>>, 5>>, <<<<4, 0 - 1, 2, 0 - 2>>, 5>>}}

\* The objects the caller starts with: a TransformationMatrix, a
\* RotationMatrix or a Point3 built from a nested list, or a Quaternion
InitialObjects ==
    {TransformationMatrix__init__(Plain("nested", Homogeneous(r, t)), "A", "B", TRUE).out :
         r \in Rotations, t \in Translations}
    \cup {RotationMatrix__init__(Plain("nested", Homogeneous(r, <<Zero, Zero, Zero>>)),
                                 "A", None, TRUE).out : r \in Rotations}
    \cup {ThePoint}
    \cup {Quaternion__init__(Plain("list", Col(q)), "A").out : q \in UnitQuaternions}

\* The in-place writes the caller makes: self[i, j] = v; on a Point3 the write
\* to entry 0 is the setter of x
WrittenCells(o) ==
    IF o.cls = "Point3" THEN {<<0, 0>>}
    ELSE IF o.cls = "Quaternion" THEN {}
    ELSE {<<0, 3>>, <<1, 1>>}
WrittenValues == {C(MaxConst + 1)}

Axes == {"x_vector", "y_vector", "z_vector"}

\* T.to_rotation(): RotationMatrix(T)
ToRotationMatrix(i) ==
    /\ Len(objs) < MaxObjects
    /\ objs[i].cls = "TransformationMatrix"
    /\ Build("to_rotation", i, RotationMatrix__s(Value(i)),
             TransformationMatrix__to_rotation(Value(i)).out)
    /\ UNCHANGED <<cfvars, geovars, symvars>>

\* TransformationMatrix.from_point_rotation_matrix(point, R)
FromPointRotationMatrix(i) ==
    /\ Len(objs) < MaxObjects
    /\ objs[i].cls = "RotationMatrix"
    /\ Build("from_point_rotation_matrix", i, TransformationMatrix__s(Value(i)),
             TransformationMatrix__from_point_rotation_matrix(
                 ThePoint, Value(i), None, None).out)
    /\ UNCHANGED <<cfvars, geovars, symvars>>

\* objs[i][key] = v  (Symbol_.__setitem__): self.s[key] = value
SetEntry(i, key, v) ==
    /\ heap' = [heap EXCEPT ![objs[i].s] = Set2(@, key[1], key[2], v)]
    /\ ret' = [f |-> "__setitem__", self |-> i, out |-> <<key, v>>]
    /\ UNCHANGED <<objs, cfvars, geovars, symvars>>

\* objs[i].to_np()
ToNp(i) ==
    /\ IsNumeric(heap[objs[i].s])
    /\ objs' = [objs EXCEPT ![i].np_data = to_np(@, heap[objs[i].s])]
    /\ ret' = [f |-> "to_np", self |-> i, out |-> objs'[i].np_data]
    /\ UNCHANGED <<heap, cfvars, geovars, symvars>>

\* R.x_vector(), R.y_vector(), R.z_vector()
AxisVector(i, axis) ==
    /\ objs[i].cls = "RotationMatrix"
    /\ ret' = [f |-> axis, self |-> i,
               out |-> CASE axis = "x_vector" -> RotationMatrix__x_vector(Value(i)).out
                         [] axis = "y_vector" -> RotationMatrix__y_vector(Value(i)).out
                         [] axis = "z_vector" -> RotationMatrix__z_vector(Value(i)).out]
    /\ UNCHANGED <<heap, objs, cfvars, geovars, symvars>>

\* T.dot(T.inverse())
DotInverse(i) ==
    /\ objs[i].cls = "TransformationMatrix"
    /\ ret' = [f |-> "dot_inverse", self |-> i,
               out |-> Then(TransformationMatrix__inverse(Value(i)),
                            LAMBDA inv : TransformationMatrix__dot(Value(i), inv)).out]
    /\ UNCHANGED <<heap, objs, cfvars, geovars, symvars>>

\* Quaternion.from_rotation_matrix(RotationMatrix.from_quaternion(q))
FromRotationMatrix(i) ==
    /\ objs[i].cls = "Quaternion"
    /\ ret' = [f |-> "from_rotation_matrix", self |-> i,
               out |-> Then(RotationMatrix__from_quaternion(Value(i)),
                            LAMBDA r : Quaternion__from_rotation_matrix(r)).out,
               scale |-> ScaleSquared(RotationMatrix__from_quaternion(Value(i)).out.s)]
    /\ UNCHANGED <<heap, objs, cfvars, geovars, symvars>>

InitMatrix ==
    /\ NoProgram
    /\ \E o \in InitialObjects :
          /\ heap = <<o.s>>
          /\ objs = <<Held(o, 1, "__init__", 0)>>
    /\ ret = NoRet
    /\ registry = InitialRegistry
    /\ instances = Cardinality(Names)
    /\ strhash = [n \in Names |-> 0]
    /\ requested = Names
    /\ symA = NoSymbol
    /\ symB = NoSymbol
    /\ cmp = NoCmp
    /\ lhs = NoneObj
    /\ rhs = NoneObj
    /\ res = NoRes

NextMatrix ==
    \/ \E i \in 1..Len(objs) : ToRotationMatrix(i)
    \/ \E i \in 1..Len(objs) : FromPointRotationMatrix(i)
    \/ \E i \in 1..Len(objs) : \E key \in WrittenCells(objs[i]), v \in WrittenValues :
          SetEntry(i, key, v)
    \/ \E i \in 1..Len(objs) : ToNp(i)
    \/ \E i \in 1..Len(objs), axis \in Axes : AxisVector(i, axis)
    \/ \E i \in 1..Len(objs) : DotInverse(i)
    \/ \E i \in 1..Len(objs) : FromRotationMatrix(i)

SpecMatrix == InitMatrix /\ [][NextMatrix]_vars

---------------------------------------------------------------------------
(* Properties *)

Returned == res.exc = "none"
\* what a call gave: the class of the value returned, or the exception raised
Outcome == IF res.exc = "none" THEN res.out.cls ELSE res.exc
FrameCarrying == {"Point3", "Vector3", "Quaternion", "RotationMatrix", "TransformationMatrix"}
LastRow(s) == s[4]
LastColumn(s) == <<s[1][4], s[2][4], s[3][4], s[4][4]>>
Fixed == <<Zero, Zero, Zero, One>>

\* C1: every Point3 a call returns has 4th component 1 and every Vector3 a call
\* returns has 4th component 0 (constructors, + - * / **, negation, a matrix
\* applied by dot, if_else, cross, scale), whatever the operands hold; scale as a
\* method leaves its vector with 4th component 0
C1_FourthComponent ==
    /\ (Returned /\ res.out.cls = "Point3") => GetItem(res.out, 3) = One
    /\ (Returned /\ res.out.cls = "Vector3") => GetItem(res.out, 3) = Zero
    /\ (Returned /\ res.op = "x.scale") => GetItem(lhs, 3) = Zero

\* Point3 - Point3 with a left operand whose 4th component was overwritten
C1_Witness ==
    /\ res.op = "sub"
    /\ res.args[1].cls = "Point3"
    /\ res.args[2].cls = "Point3"
    /\ GetItem(res.args[1], 3) = C(MaxConst)
    /\ Returned
    /\ res.out.cls = "Vector3"

\* C2: for + - * / ** in both operand orders, a scalar (number, Symbol or scalar
\* Expression) combined with a scalar gives an Expression, with a Vector3 a
\* Vector3, with a Point3 a Point3, and with a Quaternion, RotationMatrix or
\* TransformationMatrix raises TypeError
C2_ScalarArithmetic ==
    (res.op \in ArithOps /\ (IsScalarValue(res.args[1]) \/ IsScalarValue(res.args[2]))) =>
        LET other == IF IsScalarValue(res.args[1]) THEN res.args[2] ELSE res.args[1]
        IN /\ IsScalarValue(other) => Outcome = "Expression"
           /\ other.cls = "Vector3" => Outcome = "Vector3"
           /\ other.cls = "Point3" => Outcome = "Point3"
           /\ other.cls \in {"Quaternion", "RotationMatrix", "TransformationMatrix"} =>
                  Outcome = "TypeError"

\* number ** Vector3, which Python resolves through Vector3.__rpow__
C2_Witness ==
    /\ res.op = "pow"
    /\ res.args[1].cls = "float"
    /\ res.args[2].cls = "Vector3"
    /\ Outcome = "Vector3"

\* C3: p + v and v + p give a Point3; p - p, v + v and v - v a Vector3; p - v and
\* v - p a Point3; p + p, and every * / ** between points and vectors, raise
\* TypeError
C3_PointVectorArithmetic ==
    (/\ res.op \in ArithOps
     /\ res.args[1].cls \in {"Point3", "Vector3"}
     /\ res.args[2].cls \in {"Point3", "Vector3"}) =>
        LET a == res.args[1].cls
            b == res.args[2].cls
        IN Outcome =
             (CASE res.op = "add" ->
                       IF a = "Point3" /\ b = "Point3" THEN "TypeError"
                       ELSE IF a = "Vector3" /\ b = "Vector3" THEN "Vector3"
                       ELSE "Point3"
                [] res.op = "sub" -> IF a = b THEN "Vector3" ELSE "Point3"
                [] OTHER -> "TypeError")

C3_Witness ==
    /\ res.op = "sub"
    /\ res.args[1].cls = "Vector3"
    /\ res.args[2].cls = "Point3"
    /\ Outcome = "Point3"

\* The classes the dot table speaks of
DotClasses == {"Symbol", "Expression", "Vector3", "Point3", "TransformationMatrix",
               "RotationMatrix", "Quaternion"}
Matrices == {"TransformationMatrix", "RotationMatrix"}

\* The result table of dot for a left operand of class a and a right operand of
\* class b that are not one TransformationMatrix and one RotationMatrix
DotTable(a, b) ==
    IF a = "Expression" /\ b = "Expression" THEN "Expression"
    ELSE IF a \in {"Vector3", "Point3"} /\ b \in {"Vector3", "Point3"} THEN "Expression"
    ELSE IF a \in Matrices /\ b \in {"Vector3", "Point3"} THEN b
    ELSE IF a \in Matrices /\ b = a THEN a
    ELSE IF a = "Quaternion" /\ b = "Quaternion" THEN "Expression"
    ELSE "TypeError"

\* the last call was a dot, method or function, the table covers
DotCovered ==
    /\ res.op \in {"x.dot", "dot"}
    /\ res.args[1].cls \in DotClasses
    /\ res.args[2].cls \in DotClasses
    /\ ~(res.args[1].cls \in Matrices /\ res.args[2].cls \in Matrices
         /\ res.args[1].cls # res.args[2].cls)

\* C4, as stated: the method a.dot(b) and the function dot(a, b) both follow the
\* table, every pair outside it (any pair with a Symbol among them) raising
\* TypeError
C4_DotTableBothForms ==
    DotCovered => Outcome = DotTable(res.args[1].cls, res.args[2].cls)

\* C4, amended: the function dot(a, b) follows the table; the method a.dot(b)
\* follows it for every left operand but a Symbol, which has no dot method, so
\* that the call raises AttributeError
C4_DotTable ==
    DotCovered =>
        Outcome = IF res.op = "x.dot" /\ res.args[1].cls = "Symbol"
                  THEN "AttributeError"
                  ELSE DotTable(res.args[1].cls, res.args[2].cls)

\* Symbol.dot(Point3)
C4_Witness ==
    /\ res.op = "x.dot"
    /\ res.args[1].cls = "Symbol"
    /\ res.args[2].cls = "Point3"
    /\ Outcome = "AttributeError"

\* the last call was a dot of one TransformationMatrix and one RotationMatrix
DotMixed ==
    /\ res.op \in {"x.dot", "dot"}
    /\ res.args[1].cls \in Matrices
    /\ res.args[2].cls \in Matrices
    /\ res.args[1].cls # res.args[2].cls

\* C5, as stated: a dot of a TransformationMatrix and a RotationMatrix returns a
\* TransformationMatrix in both operand orders
C5_MixedDotIsTransformation == DotMixed => Outcome = "TransformationMatrix"

\* C5, amended: RotationMatrix.dot(TransformationMatrix) returns a
\* TransformationMatrix, TransformationMatrix.dot(RotationMatrix) a RotationMatrix
C5_MixedDot == DotMixed => Outcome = res.args[2].cls

\* TransformationMatrix.dot(RotationMatrix)
C5_Witness ==
    /\ res.op = "x.dot"
    /\ res.args[1].cls = "TransformationMatrix"
    /\ res.args[2].cls = "RotationMatrix"
    /\ Outcome = "RotationMatrix"

\* The registry holds one instance per requested name and nothing else, and the
\* handles given out are the instances it holds
OnePerName ==
    /\ \A n \in Names : registry[n] # 0 <=> n \in requested
    /\ \A n, m \in requested : registry[n] = registry[m] => n = m
    /\ instances = Cardinality(requested)
    /\ symA # NoSymbol => symA.id = registry[symA.name]
    /\ symB # NoSymbol => symB.id = registry[symB.name]

\* A step creates an instance exactly for a name not requested before, and
\* leaves every existing entry as it is
CreatesOnce ==
    /\ \A n \in Names : registry[n] # 0 => registry'[n] = registry[n]
    /\ instances' = instances + Cardinality(requested' \ requested)

\* C6: after any sequence of Symbol(name) requests the registry holds exactly
\* one Symbol per requested name; the first request for a name creates its
\* instance, a later one returns that instance and creates nothing, and no
\* request removes or replaces an entry
C6_Registry == [](OnePerName) /\ [][CreatesOnce]_vars

\* the same name requested twice, after the other name had been requested
C6_Witness ==
    /\ requested = Names
    /\ symA # NoSymbol
    /\ symA.name = symB.name
    /\ symA.id = symB.id
    /\ instances = Cardinality(Names)

\* C7, as stated: a == b exactly when the names are equal, a != b is the
\* negation, and a == b implies hash(a) == hash(b)
C7_EqualIffSameName ==
    cmp.done =>
        /\ cmp.eq <=> symA.name = symB.name
        /\ cmp.ne <=> ~cmp.eq
        /\ cmp.eq => cmp.hashA = cmp.hashB

\* The operations C8 names
C8Ops == {"RotationMatrix", "from_axis_angle", "from_rpy", "from_quaternion",
          "from_vectors", "RotationMatrix.T", "RotationMatrix.inverse", "to_rotation",
          "x.dot"}

\* C8, as stated: every RotationMatrix returned by RotationMatrix(data),
\* from_axis_angle, from_rpy, from_quaternion, from_vectors, T, inverse,
\* to_rotation, RotationMatrix.dot(RotationMatrix) and
\* TransformationMatrix.dot(RotationMatrix) has last row and last column (0,0,0,1)
C8_RotationLastRowColumn ==
    (res.op \in C8Ops /\ Returned /\ res.out.cls = "RotationMatrix") =>
        /\ LastRow(res.out.s) = Fixed
        /\ LastColumn(res.out.s) = Fixed

\* The binary operations C9 names
C9Ops == ArithOps \cup {"x.dot", "dot", "x.cross", "cross",
                        "Quaternion.multiply", "Quaternion.diff"}

\* C9, as stated: a binary operation (+ - * / **, dot, cross, Quaternion.multiply,
\* Quaternion.diff) with a frame-carrying left operand and a frame-carrying
\* result gives the result the left operand's reference_frame
C9_LeftFrame ==
    (/\ res.op \in C9Ops
     /\ res.args[1].cls \in FrameCarrying
     /\ Returned
     /\ res.out.cls \in FrameCarrying) =>
        res.out.reference_frame = res.args[1].reference_frame

\* C10: RotationMatrix(data) and TransformationMatrix(data), with the default
\* sanity check, raise ValueError when data is not 4x4; from 4x4 data they return
\* a matrix whose bottom row is (0,0,0,1)
C10_ShapeCheck ==
    (res.op \in {"RotationMatrix", "TransformationMatrix"} /\ res.args[1].cls # "NoneType") =>
        IF Shape(res.args[1].s) = <<4, 4>>
        THEN Returned /\ res.out.cls = res.op /\ LastRow(res.out.s) = Fixed
        ELSE res.exc = "ValueError"

\* TransformationMatrix(data) with 4x4 data whose bottom row is not (0,0,0,1)
C10_Witness ==
    /\ res.op = "TransformationMatrix"
    /\ Shape(res.args[1].s) = <<4, 4>>
    /\ LastRow(res.args[1].s) # Fixed
    /\ Returned

\* C11, as stated: if_else(condition, a, b) is rejected whenever a or b is a
\* Point3, Vector3, Quaternion, RotationMatrix or TransformationMatrix and a and
\* b are not of the same class, also when only b is of a geometric class
C11_IfElseRejectsMixedTypes ==
    (/\ res.op = "if_else"
     /\ (res.args[1].cls \in Geometric \/ res.args[2].cls \in Geometric)
     /\ res.args[1].cls # res.args[2].cls) =>
        ~Returned

\* C12, as stated: for any declared list of parameter groups, one or several,
\* the keyword call f(**values) returns what fast_call returns when given, for
\* each group in declared order, the array of the group's values in declared
\* order, in whatever order the keywords are written
C12_KeywordCallIsFastCall ==
    call.kind = "__call__" =>
        LET r == fast_call(compiled_f, ArraysOf(compiled_f, call.kwargs), <<>>)
        IN call.value = Deref(r[1], r[2])

\* the assignment a positional call with one array per group makes
CallEnv == EnvOf(compiled_f.symbol_parameters, call.args)

\* C13: the array fast_call returns, in dense mode and, expanded from its
\* compressed-sparse-column buffer, in sparse mode, holds the value of every
\* entry of the expression at the parameter values passed; also for an
\* expression without parameters
C13_CompiledEqualsExpression ==
    call.kind = "fast_call" =>
        toarray(call.value) =
            EvalMatrix(compiled_f.expression,
                       IF Len(compiled_f.symbol_parameters) = 0
                       THEN [n \in Names |-> QInt(0)]
                       ELSE CallEnv)

\* a sparse function of a and b called with a = 1 and b = MaxConst: the buffer
\* holds the three structural non-zeros of the 2x2 expression
C13_Witness ==
    /\ call.kind = "fast_call"
    /\ compiled_f.sparse
    /\ compiled_f.expression = X22
    /\ Len(call.value.data) < Numel(X22)
    /\ CallEnv["a"] = QInt(1)
    /\ CallEnv["b"] = QInt(MaxConst)
    /\ toarray(call.value) = << <<QInt(1), QInt(MaxConst)>>, <<QInt(1 - MaxConst), QInt(0)>> >>

\* the function was compiled from an expression without free parameters
NoFreeParameters == compiled_f.compiled /\ Len(compiled_f.symbol_parameters) = 0

\* every call so far returned the value of the expression
ReturnsConstant ==
    call.kind \in {"fast_call", "__call__"} =>
        toarray(call.value) = EvalMatrix(compiled_f.expression, [n \in Names |-> QInt(0)])

\* C14, as stated: for an expression without free parameters the evaluator runs
\* exactly once, during compile(); every later f() and f.fast_call(...) returns
\* the value computed then and runs nothing, in dense and in sparse mode
C14_EvaluatedOnceAtCompile ==
    NoFreeParameters => (compiled_f.runs = 1 /\ ReturnsConstant)

\* C14, amended: the evaluator runs once during compile() and never again,
\* except for an empty expression (no rows) in sparse mode, for which no
\* evaluator is built or run; every f() and f.fast_call(...) returns the value
\* of the expression
C14_EvaluatedAtMostOnce ==
    NoFreeParameters =>
        /\ compiled_f.runs =
              IF compiled_f.sparse /\ Rows(compiled_f.expression) = 0 THEN 0 ELSE 1
        /\ ReturnsConstant

\* f.fast_call(np.array([1.])) on the sparse function of the constant column
C14_Witness ==
    /\ NoFreeParameters
    /\ compiled_f.sparse
    /\ compiled_f.expression = K31
    /\ call.kind = "fast_call"
    /\ Len(call.args) = 1
    /\ compiled_f.runs = 1
    /\ toarray(call.value) = << <<QInt(1)>>, <<QInt(0)>>, <<QInt(MaxConst)>> >>

\* A step leaves the parameter list and the shape (and, in sparse mode, the
\* sparsity pattern) of the output buffer as they are
StructureKept ==
    compiled_f.compiled =>
        /\ compiled_f'.symbol_parameters = compiled_f.symbol_parameters
        /\ compiled_f'.hasOut = compiled_f.hasOut
        /\ compiled_f'.out.shape = compiled_f.out.shape
        /\ Len(compiled_f'.out.data) = Len(compiled_f.out.data)
        /\ compiled_f.sparse /\ compiled_f.hasOut =>
              /\ compiled_f'.out.indices = compiled_f.out.indices
              /\ compiled_f'.out.indptr = compiled_f.out.indptr

\* fast_call returns the buffer the function owns, which holds the outputs of
\* this call, and an array kept from an earlier call is that same buffer
OneBuffer ==
    call.kind = "fast_call" =>
        /\ Len(compiled_f.symbol_parameters) > 0 => call.ret = OutBuffer
        /\ Deref(compiled_f, call.ret) = call.value
        /\ toarray(call.value) =
              EvalMatrix(compiled_f.expression,
                         IF Len(compiled_f.symbol_parameters) = 0
                         THEN [n \in Names |-> QInt(0)]
                         ELSE CallEnv)
        /\ kept # NoKept =>
              /\ kept.ref = call.ret
              /\ Deref(compiled_f, kept.ref) = call.value

\* C15: after construction a CompiledFunction never changes its parameter list
\* or the shape of its output buffer; every fast_call returns the one buffer
\* the function owns, holding the outputs of the latest call, so that a result
\* kept from an earlier call shows the values of the latest call
C15_OwnedBuffer == [](OneBuffer) /\ [][StructureKept]_vars

\* an array kept from a call with other values now shows the latest outputs
C15_Witness ==
    /\ call.kind = "fast_call"
    /\ kept # NoKept
    /\ kept.seen # call.value
    /\ Deref(compiled_f, kept.ref) = call.value
    /\ compiled_f.runs > 1

\* the number of expressions the stacked function was built from
NumExpressions == Len(compiled_f.expressions)

\* the views that follow the per-expression views: the additional views
AdditionalViews ==
    SubSeq(compiled_f.split_out_view, NumExpressions + 1, Len(compiled_f.split_out_view))

\* The first n views are contiguous and in order, view i covering the r_i rows
\* of expression i, and the list returned holds, for every view, the rows of
\* the combined output for the arguments of the call
ViewsOfCall ==
    call.kind = "stacked" =>
        LET views == compiled_f.split_out_view
            n == NumExpressions
            combined == EvalMatrix(vstack(compiled_f.expressions),
                                   IF Len(compiled_f.symbol_parameters) = 0
                                   THEN [m \in Names |-> QInt(0)]
                                   ELSE CallEnv)
        IN /\ Len(views) >= n
           /\ Len(call.value) = Len(views)
           /\ views[1][1] = 0
           /\ views[n][2] = Rows(combined)
           /\ \A i \in 1..n :
                 /\ views[i][2] - views[i][1] = Rows(compiled_f.expressions[i])
                 /\ i > 1 => views[i][1] = views[i - 1][2]
                 /\ call.value[i] = EvalMatrix(compiled_f.expressions[i],
                                               IF Len(compiled_f.symbol_parameters) = 0
                                               THEN [m \in Names |-> QInt(0)]
                                               ELSE CallEnv)
           /\ \A i \in 1..Len(views) :
                 call.value[i] = SubSeq(combined, views[i][1] + 1, views[i][2])

\* a call of a stacked function runs the evaluator once
OneRunPerCall ==
    (IsStacked(compiled_f) /\ call' # call) => compiled_f'.runs = compiled_f.runs + 1

\* a call of a stacked function with parameters runs the evaluator once; one
\* without parameters runs nothing
OneRunPerCallWithParameters ==
    (IsStacked(compiled_f) /\ call' # call) =>
        compiled_f'.runs = compiled_f.runs
                           + (IF Len(compiled_f.symbol_parameters) = 0 THEN 0 ELSE 1)

\* C16, as stated: fast_call of a StackedCompiledFunction built from n >= 1
\* expressions returns a list whose first n entries are contiguous,
\* non-overlapping views of the combined output in order, entry i covering the
\* r_i rows of expression i and holding its value for the arguments of the
\* call; the additional views follow in the order given; one evaluator run per
\* call refreshes all entries
C16_StackedViews == [](ViewsOfCall) /\ [][OneRunPerCall]_vars

\* C16, amended: as stated, but with one evaluator run per call only when the
\* function has parameters; without parameters a call runs nothing and the
\* views hold the values computed at construction
C16_StackedViewsRefreshed == [](ViewsOfCall) /\ [][OneRunPerCallWithParameters]_vars

\* three expressions of 1, 2 and 1 rows and two additional views, called twice
C16_Witness ==
    /\ call.kind = "stacked"
    /\ NumExpressions = 3
    /\ compiled_f.split_out_view = << <<0, 1>>, <<1, 3>>, <<3, 4>>, <<1, 2>>, <<0, 1>> >>
    /\ compiled_f.runs = 2
    /\ call.value[2] = << <<QInt(1 - MaxConst)>>, <<QInt(MaxConst)>> >>
    /\ call.value[4] = << <<QInt(1 - MaxConst)>> >>

\* The three truth values, and the assignments of the symbols to them
TrueQ == QInt(1)
FalseQ == QInt(0)
UnknownQ == Q(1, 2)
TrinaryValues == {TrueQ, FalseQ, UnknownQ}
TrinaryAssignments == [Names -> TrinaryValues]

\* Kleene's three-valued connectives
KleeneAnd(x, y) ==
    IF x = FalseQ \/ y = FalseQ THEN FalseQ
    ELSE IF x = TrueQ /\ y = TrueQ THEN TrueQ
    ELSE UnknownQ
KleeneOr(x, y) ==
    IF x = TrueQ \/ y = TrueQ THEN TrueQ
    ELSE IF x = FalseQ /\ y = FalseQ THEN FalseQ
    ELSE UnknownQ
KleeneNot(x) == IF x = TrueQ THEN FalseQ ELSE IF x = FalseQ THEN TrueQ ELSE UnknownQ

\* the value of a scalar object under an assignment
ValueOf(x, env) == Eval(Entry(x), env)

\* C17: for all a, b in {TrinaryTrue, TrinaryFalse, TrinaryUnknown},
\* logic_and3(a, b), logic_or3(a, b) and logic_not3(a) are Kleene's conjunction,
\* disjunction and negation, for constant arguments folded at construction and
\* for symbols bound when the expression is evaluated
C17_KleeneOperations ==
    \A env \in TrinaryAssignments :
        /\ app.f = "logic_and3" =>
              ValueOf(app.out, env) = KleeneAnd(ValueOf(app.args[1], env),
                                                ValueOf(app.args[2], env))
        /\ app.f = "logic_or3" =>
              ValueOf(app.out, env) = KleeneOr(ValueOf(app.args[1], env),
                                               ValueOf(app.args[2], env))
        /\ app.f = "logic_not3" =>
              ValueOf(app.out, env) = KleeneNot(ValueOf(app.args[1], env))

\* logic_and3 of two symbols: the minimum, bound at evaluation time
C17_Witness ==
    /\ app.f = "logic_and3"
    /\ app.args = <<SymbolA, SymbolB>>
    /\ Entry(app.out) = <<"fmin", SymA, SymB>>
    /\ ValueOf(app.out, [n \in Names |-> IF n = "a" THEN TrueQ ELSE UnknownQ]) = UnknownQ

\* logic_or3 of the constants unknown and false, folded at construction
C17_WitnessConstants ==
    /\ app.f = "logic_or3"
    /\ app.args = <<TrinaryUnknown, TrinaryFalse>>
    /\ Entry(app.out) = Half

\* The Kleene value of the AND/OR/NOT structure of an entry; any other node is
\* a leaf and has the value the evaluator gives it
RECURSIVE Kleene3(_, _)
Kleene3(t, env) ==
    IF t[1] = "not" THEN KleeneNot(Kleene3(t[2], env))
    ELSE IF t[1] = "and" THEN KleeneAnd(Kleene3(t[2], env), Kleene3(t[3], env))
    ELSE IF t[1] = "or" THEN KleeneOr(Kleene3(t[2], env), Kleene3(t[3], env))
    ELSE Eval(t, env)

IsLogicNode(t) == t[1] \in {"not", "and", "or"}
BinaryAssignments == [Names -> {TrueQ, FalseQ}]

\* C18: for a boolean expression built from symbols with logic_and, logic_or
\* and logic_not, replace_with_three_logic returns an expression whose value at
\* every assignment to {true, false, unknown} is the Kleene value of the same
\* AND/OR/NOT structure (and so the value of the original at assignments to
\* {0, 1}); an expression that is no AND/OR/NOT node is returned unchanged
C18_ThreeLogicRewrite ==
    app.f = "replace_with_three_logic" =>
        /\ \A env \in TrinaryAssignments :
              ValueOf(app.out, env) = Kleene3(Entry(app.args[1]), env)
        /\ \A env \in BinaryAssignments :
              ValueOf(app.out, env) = ValueOf(app.args[1], env)
        /\ ~IsLogicNode(Entry(app.args[1])) => app.out = app.args[1]

\* a AND (NOT a OR b) rewritten to min(a, max(1 - a, b))
C18_Witness ==
    /\ app.f = "replace_with_three_logic"
    /\ Entry(app.args[1]) = <<"and", SymA, <<"or", <<"not", SymA>>, SymB>>>>
    /\ Entry(app.out) = <<"fmin", SymA, <<"fmax", <<"sub", One, SymA>>, SymB>>>>
    /\ ValueOf(app.out, [n \in Names |-> UnknownQ]) = UnknownQ

\* the conjunction (disjunction) of the entries of a non-empty list, nested to
\* the right
RECURSIVE Conjunction(_)
Conjunction(args) ==
    IF Len(args) = 1 THEN Entry(args[1])
    ELSE SXand(Entry(args[1]), Conjunction(Tail(args)))
RECURSIVE Disjunction(_)
Disjunction(args) ==
    IF Len(args) = 1 THEN Entry(args[1])
    ELSE SXor(Entry(args[1]), Disjunction(Tail(args)))

\* C19: logic_and returns BinaryFalse if an argument is the constant false;
\* otherwise it drops the constant-true arguments and returns BinaryTrue if
\* none remains, the remaining argument if one remains, and the conjunction of
\* the remaining arguments otherwise; logic_or is the dual; for two, three or
\* more arguments
C19_ConstantFolding ==
    /\ app.f = "logic_and" =>
          LET rest == NotTrue(app.args)
          IN IF AnyFalse(app.args) THEN app.out = BinaryFalse
             ELSE IF Len(rest) = 0 THEN app.out = BinaryTrue
             ELSE IF Len(rest) = 1 THEN app.out = rest[1]
             ELSE app.out = Expression(SX(Conjunction(rest)))
    /\ app.f = "logic_or" =>
          LET rest == NotFalse(app.args)
          IN IF AnyTrue(app.args) THEN app.out = BinaryTrue
             ELSE IF Len(rest) = 0 THEN app.out = BinaryFalse
             ELSE IF Len(rest) = 1 THEN app.out = rest[1]
             ELSE app.out = Expression(SX(Disjunction(rest)))

\* logic_or of three arguments none of which is a constant
C19_Witness ==
    /\ app.f = "logic_or"
    /\ Len(app.args) = MaxArgs
    /\ Len(NotFalse(app.args)) = MaxArgs
    /\ ~AnyTrue(app.args)
    /\ app.args[1] = SymbolA
    /\ app.args[2] = SymbolB
    /\ Entry(app.out)[1] = "or"
    /\ Entry(app.out)[3][1] = "or"

\* The numbers compared, and the assignments of the symbols to them
ComparedValues == {QInt(n) : n \in (0 - 1)..MaxConst}
NumberAssignments == [Names -> ComparedValues]

\* the condition under which a helper selects if_result
Selects(name, a, b) ==
    CASE name = "if_greater" -> QLt(b, a)
      [] name = "if_greater_eq" -> ~QLt(a, b)
      [] name = "if_less" -> QLt(a, b)
      [] name = "if_less_eq" -> ~QLt(b, a)
      [] name = "if_eq" -> a = b
      [] name = "if_greater_zero" -> QLt(QInt(0), a)
      [] name = "if_greater_eq_zero" -> ~QLt(a, QInt(0))
      [] name = "if_eq_zero" -> a = QInt(0)

\* C20: if_greater(a, b, x, y) is x iff a > b, if_greater_eq iff a >= b, if_less
\* iff a < b, if_less_eq iff a <= b, if_eq iff a = b, if_greater_zero(c, x, y)
\* iff c > 0, if_greater_eq_zero iff c >= 0, if_eq_zero iff c = 0; otherwise y
C20_ConditionalHelpers ==
    app.f \in Helpers =>
        \A env \in NumberAssignments :
            ValueOf(app.out, env) =
                IF Selects(app.f, ValueOf(app.args[1], env), ValueOf(app.args[2], env))
                THEN ValueOf(IfResult, env)
                ELSE ValueOf(ElseResult, env)

\* if_less_eq(a, b, 1, MaxConst) for the symbols a and b
C20_Witness ==
    /\ app.f = "if_less_eq"
    /\ app.args = <<SymbolA, SymbolB>>
    /\ Entry(app.out)[1] = "if_else"
    /\ ValueOf(app.out, [n \in Names |-> IF n = "a" THEN QInt(0 - 1) ELSE QInt(0)])
          = ValueOf(IfResult, [n \in Names |-> QInt(0)])

\* the result of the first case in list order whose key equals (is at least) a,
\* the default if there is none
RECURSIVE FirstEqual(_, _, _)
FirstEqual(a, cases, default) ==
    IF Len(cases) = 0 THEN default
    ELSE IF Num(Entry(cases[1][1])) = a THEN Num(Entry(cases[1][2]))
    ELSE FirstEqual(a, Tail(cases), default)
RECURSIVE FirstLessEq(_, _, _)
FirstLessEq(a, cases, default) ==
    IF Len(cases) = 0 THEN default
    ELSE IF QLe(a, Num(Entry(cases[1][1]))) THEN Num(Entry(cases[1][2]))
    ELSE FirstLessEq(a, Tail(cases), default)
DistinctKeys(cases) ==
    \A i, j \in 1..Len(cases) : cases[i][1] = cases[j][1] => i = j
SortedAscending(cases) ==
    \A i, j \in 1..Len(cases) :
        i < j => QLe(Num(Entry(cases[i][1])), Num(Entry(cases[j][1])))

\* C21: if_eq_cases(a, cases, else_result) is the result of the first case in
\* list order whose key equals a, and else_result when no key equals a, for
\* every case list, also one in which a key occurs twice with different results
C21_FirstEqualCase ==
    app.f = "if_eq_cases" =>
        \A env \in NumberAssignments :
            ValueOf(app.out, env) =
                FirstEqual(ValueOf(app.args[1], env), app.args[2], Num(Entry(app.args[3])))

\* C22: for a case list with pairwise distinct keys, if_eq_cases_grouped(a,
\* cases, else_result) has the value of if_eq_cases(a, cases, else_result): the
\* result paired with the key equal to a, else_result when no key equals a
C22_GroupedEqualsCases ==
    (app.f = "if_eq_cases_grouped" /\ DistinctKeys(app.args[2])) =>
        \A env \in NumberAssignments :
            /\ ValueOf(app.out, env) =
                   ValueOf(if_eq_cases(app.args[1], app.args[2], app.args[3]), env)
            /\ ValueOf(app.out, env) =
                   FirstEqual(ValueOf(app.args[1], env), app.args[2], Num(Entry(app.args[3])))

\* three cases with distinct keys, the first and the last with the same result,
\* so that one group has two keys; the last key selects that group's result
C22_Witness ==
    /\ app.f = "if_eq_cases_grouped"
    /\ app.args[2] = <<<<Float(0), Float(1)>>, <<Float(1), Float(MaxConst)>>,
                       <<Float(MaxConst), Float(1)>>>>
    /\ ValueOf(app.out, [n \in Names |-> QInt(MaxConst)]) = QInt(1)
    /\ ValueOf(app.out, [n \in Names |-> QInt(1)]) = QInt(MaxConst)
    /\ ValueOf(app.out, [n \in Names |-> QInt(0 - 1)]) = QInt(0)

\* C23: for a case list sorted ascending by threshold, if_less_eq_cases(a,
\* cases, else_result) is the result of the first threshold b with a <= b, and
\* else_result when a is greater than every threshold
C23_FirstThreshold ==
    (app.f = "if_less_eq_cases" /\ SortedAscending(app.args[2])) =>
        \A env \in NumberAssignments :
            ValueOf(app.out, env) =
                FirstLessEq(ValueOf(app.args[1], env), app.args[2], Num(Entry(app.args[3])))

\* three ascending thresholds; a value between the first and the second
\* selects the second case, a value above all of them the default
C23_Witness ==
    /\ app.f = "if_less_eq_cases"
    /\ app.args[2] = <<<<Float(0), Float(1)>>, <<Float(1), Float(MaxConst)>>,
                       <<Float(MaxConst), Float(1)>>>>
    /\ ValueOf(app.out, [n \in Names |-> QInt(0 - 1)]) = QInt(1)
    /\ ValueOf(app.out, [n \in Names |-> Q(1, 2)]) = QInt(MaxConst)
    /\ ValueOf(app.out, [n \in Names |-> QInt(MaxConst + 1)]) = QInt(0)

\* the call just made built objs[ret.out] from objs[ret.self]
JustReturned(f) == ret.f = f
\* this step is the call f building a new object from objs[ret'.self]
Calls(f) == Len(objs') = Len(objs) + 1 /\ ret'.f = f
\* this step writes an entry of an object that f built
WritesResultOf(f) == ret'.f = "__setitem__" /\ objs[ret'.self].made_by = f
\* the state of the object that f's result was built from, before and after
ArgumentKept(i) == heap'[objs[i].s] = heap[objs[i].s]

\* to_rotation returned a RotationMatrix with T's rotation block and a zero
\* translation column
RotationOfT ==
    JustReturned("to_rotation") =>
        /\ objs[ret.out].cls = "RotationMatrix"
        /\ Block(Value(ret.out).s) = Block(Value(ret.self).s)
        /\ Translation(Value(ret.out).s) = <<Zero, Zero, Zero>>
        /\ Value(ret.out).s[4] = <<Zero, Zero, Zero, One>>
ToRotationKeepsT ==
    /\ Calls("to_rotation") => ArgumentKept(ret'.self)
    /\ WritesResultOf("to_rotation") => ArgumentKept(objs[ret'.self].made_from)

\* C26: T.to_rotation() (RotationMatrix(T)) returns a RotationMatrix holding
\* T's 3x3 rotation block with a zero translation column; the call leaves every
\* entry of T, its translation column included, unchanged; and a later write to
\* the returned matrix does not show through T
C26_ToRotationCopies == [](RotationOfT) /\ [][ToRotationKeepsT]_vars

\* an entry of the translation column of the matrix returned by to_rotation has
\* been written, and T still has its translation
C26_Witness ==
    /\ ret.f = "__setitem__"
    /\ ret.out[1] = <<0, 3>>
    /\ objs[ret.self].made_by = "to_rotation"
    /\ Value(ret.self).s[1][4] = C(MaxConst + 1)
    /\ Translation(Value(objs[ret.self].made_from).s) = <<One, C(MaxConst), Zero>>

FromPointKeepsRotation ==
    /\ Calls("from_point_rotation_matrix") => ArgumentKept(ret'.self)
    /\ WritesResultOf("from_point_rotation_matrix") =>
           ArgumentKept(objs[ret'.self].made_from)

\* C28: from_point_rotation_matrix(point, rotation_matrix) does not modify its
\* arguments: after the call rotation_matrix has the entries it had before (its
\* translation column is still zero), and a later write to the returned
\* transform does not show through rotation_matrix
C28_ArgumentsUnchanged == [][FromPointKeepsRotation]_vars

\* C29: to_np() returns the numeric value of the current entries, also after an
\* in-place assignment that followed an earlier to_np()
C29_ToNpCurrent ==
    ret.f = "to_np" => ret.out = evalf(heap[objs[ret.self].s])

\* the column of the rotation block an axis method is to return
AxisColumn(axis) ==
    CASE axis = "x_vector" -> 1 [] axis = "y_vector" -> 2 [] axis = "z_vector" -> 3

\* C30: x_vector(), y_vector() and z_vector() of a RotationMatrix return, as a
\* Vector3 with the matrix's reference_frame, the first, second and third
\* column of its 3x3 rotation block, so (1,0,0), (0,1,0) and (0,0,1) for the
\* identity
C30_AxisVectors ==
    ret.f \in Axes =>
        /\ ret.out.cls = "Vector3"
        /\ ret.out.reference_frame = objs[ret.self].reference_frame
        /\ ret.out.s = Col(<<Value(ret.self).s[1][AxisColumn(ret.f)],
                             Value(ret.self).s[2][AxisColumn(ret.f)],
                             Value(ret.self).s[3][AxisColumn(ret.f)], Zero>>)

\* the numbers of the 4x4 identity
IdentityNumbers == [i \in 1..4 |-> [j \in 1..4 |-> IF i = j THEN QInt(1) ELSE QInt(0)]]
\* the sum over k = 1..n of m[k][i] * m[k][j]
RECURSIVE ColumnProduct(_, _, _, _)
ColumnProduct(m, i, j, n) ==
    IF n = 0 THEN QInt(0)
    ELSE QAdd(ColumnProduct(m, i, j, n - 1), QMul(m[n][i], m[n][j]))
\* a 3x3 block of numbers whose columns are orthonormal
Orthonormal(m) ==
    \A i, j \in 1..3 : ColumnProduct(m, i, j, 3) = IF i = j THEN QInt(1) ELSE QInt(0)

\* C24: for a TransformationMatrix T whose 3x3 block is orthonormal, with any
\* translation, T.dot(T.inverse()) is the 4x4 identity
C24_DotInverseIsIdentity ==
    ret.f = "dot_inverse" =>
        \A env \in NumberAssignments :
            Orthonormal(EvalMatrix(Block(Value(ret.self).s), env)) =>
                EvalMatrix(ret.out.s, env) = IdentityNumbers

\* T.dot(T.inverse()) for the rotation with cosine 3/5 and the translation
\* (a, 3/5, b)
C24_Witness ==
    /\ ret.f = "dot_inverse"
    /\ Value(ret.self).s[2][2] = ThreeFifths
    /\ Translation(Value(ret.self).s) = <<SXsym("a"), ThreeFifths, SXsym("b")>>
    /\ \A env \in NumberAssignments :
          /\ Orthonormal(EvalMatrix(Block(Value(ret.self).s), env))
          /\ EvalMatrix(ret.out.s, env) = IdentityNumbers

\* the numbers of a matrix without symbols, and their negation
Numbers(m) == EvalMatrix(m, [n \in Names |-> QInt(0)])
Negated(m) == [i \in 1..Len(m) |-> [j \in 1..Len(m[i]) |-> QSub(QInt(0), m[i][j])]]
\* x^2 + y^2 + z^2 + w^2 = 1
UnitQuaternion(q) ==
    QAdd(QAdd(QMul(q[1][1], q[1][1]), QMul(q[2][1], q[2][1])),
         QAdd(QMul(q[3][1], q[3][1]), QMul(q[4][1], q[4][1]))) = QInt(1)
\* the branch of the conversion a unit quaternion takes: the trace of the 3x3
\* block is 4w^2 - 1, and its diagonal elements order as x^2, y^2, z^2
Branch(q) ==
    LET x2 == QMul(q[1][1], q[1][1])
        y2 == QMul(q[2][1], q[2][1])
        z2 == QMul(q[3][1], q[3][1])
        w2 == QMul(q[4][1], q[4][1])
    IN IF QLt(QInt(1), QMul(QInt(4), w2)) THEN "trace"
       ELSE IF QLt(x2, y2) THEN (IF QLt(y2, z2) THEN "z" ELSE "y")
       ELSE IF QLt(x2, z2) THEN "z" ELSE "x"

\* C25: for a unit quaternion q, from_rotation_matrix(from_quaternion(q)) is q
\* or -q in each of the four branches of the conversion, and the term
\* t * r[3, 3] under the square root is positive
C25_QuaternionRoundTrip ==
    (ret.f = "from_rotation_matrix" /\ UnitQuaternion(Numbers(Value(ret.self).s))) =>
        /\ QLt(QInt(0), Eval(ret.scale, [n \in Names |-> QInt(0)]))
        /\ \/ Numbers(ret.out.s) = Numbers(Value(ret.self).s)
           \/ Numbers(ret.out.s) = Negated(Numbers(Value(ret.self).s))

\* the round trip of (-2/5, 4/5, 1/5, 2/5), whose largest component is y
C25_Witness ==
    /\ ret.f = "from_rotation_matrix"
    /\ Numbers(Value(ret.self).s) = <<<<Q(0 - 2, 5)>>, <<Q(4, 5)>>, <<Q(1, 5)>>, <<Q(2, 5)>>>>
    /\ Branch(Numbers(Value(ret.self).s)) = "y"
    /\ Numbers(ret.out.s) = Numbers(Value(ret.self).s)

\* The values the symbols and their derivatives take
MotionNames == {"a", "b", "ad", "bd", "add", "bdd"}
MotionAssignments == [MotionNames -> {QInt(0 - 1), QInt(1), QInt(MaxConst)}]

\* env with the symbols called x and y moved by dx and dy
Shifted(env, x, dx, y, dy) ==
    [n \in DOMAIN env |->
        QAdd(env[n], QInt((IF n = x THEN dx ELSE 0) + (IF n = y THEN dy ELSE 0)))]

\* The entry (x, y) of the Hessian of an expression of degree at most two in
\* each symbol, by differences (exact for such an expression):
\*   f(x+1) - 2 f(x) + f(x-1)  for x = y,
\*   (f(x+1,y+1) - f(x+1,y-1) - f(x-1,y+1) + f(x-1,y-1)) / 4  otherwise
HessianEntry(expr, x, y, env) ==
    IF x = y
    THEN QAdd(QSub(Eval(expr, Shifted(env, x, 1, x, 0)),
                   QMul(QInt(2), Eval(expr, env))),
              Eval(expr, Shifted(env, x, 0 - 1, x, 0)))
    ELSE QDiv(QAdd(QSub(QSub(Eval(expr, Shifted(env, x, 1, y, 1)),
                             Eval(expr, Shifted(env, x, 1, y, 0 - 1))),
                        Eval(expr, Shifted(env, x, 0 - 1, y, 1))),
                   Eval(expr, Shifted(env, x, 0 - 1, y, 0 - 1))),
              QInt(4))

\* H[i][j] times xdd[i] when i = j, times xd[i] * xd[j] otherwise
Contribution(expr, symbols, symbols_dot, symbols_ddot, i, j, env) ==
    QMul(HessianEntry(expr, symbols[i][2], symbols[j][2], env),
         IF i = j THEN Eval(symbols_ddot[i], env)
         ELSE QMul(Eval(symbols_dot[i], env), Eval(symbols_dot[j], env)))

\* the sum of the contributions of the first k index pairs, row by row
RECURSIVE Contraction(_, _, _, _, _, _)
Contraction(expr, symbols, symbols_dot, symbols_ddot, k, env) ==
    IF k = 0 THEN QInt(0)
    ELSE QAdd(Contraction(expr, symbols, symbols_dot, symbols_ddot, k - 1, env),
              Contribution(expr, symbols, symbols_dot, symbols_ddot,
                           ((k - 1) \div Len(symbols)) + 1, ((k - 1) % Len(symbols)) + 1,
                           env))

\* C27: total_derivative2(expr, x, xd, xdd) is the sum over i of
\* H[i][i] * xdd[i] plus the sum over all i # j of H[i][j] * xd[i] * xd[j],
\* H being the Hessian of expr with respect to x, for one symbol or more
C27_SecondTotalDerivative ==
    app.f = "total_derivative2" =>
        \A env \in MotionAssignments :
            ValueOf(app.out, env) =
                Contraction(app.args[1], app.args[2], app.args[3], app.args[4],
                            Len(app.args[2]) * Len(app.args[2]), env)

\* total_derivative2(a*b*b, [a, b], [ad, bd], [add, bdd]) is
\* bdd*2*a + 2*ad*bd*2*b: -12 for a = 1, b = 2, ad = -1, bd = 2, add = 2, bdd = 2
C27_Witness ==
    /\ app.f = "total_derivative2"
    /\ app.args[1] = SXmul(SymA, SXmul(SymB, SymB))
    /\ app.args[2] = <<SymA, SymB>>
    /\ ValueOf(app.out, [a |-> QInt(1), b |-> QInt(2), ad |-> QInt(0 - 1), bd |-> QInt(2),
                         add |-> QInt(2), bdd |-> QInt(2)]) = QInt(0 - 12)

====
